---- MODULE Spec2Model ----
(***************************************************************************)
(* OpenAPIParser (openapi_parser.ts): version detection, operation         *)
(* mapping and lazy $ref resolution, as a state machine.                   *)
(*                                                                         *)
(* A JS string is the sequence of its characters, a JS object the sequence *)
(* of its <<key, value>> entries in insertion order (Entries gives the     *)
(* order Object.entries enumerates them in), an array the sequence of its  *)
(* items.  One behaviour is one call of parse on one                       *)
(* document; resolveRefs runs one call or one return per step on an        *)
(* explicit call stack (frames).                                           *)
(***************************************************************************)
EXTENDS Integers, Sequences, FiniteSets, TLC

VARIABLES
    specData,     \* the document handed to parse
    specVersion,  \* this.specVersion
    pc,           \* position of parse
    outcome,      \* "running", "ok", or the error parse raised
    tools,        \* tools pushed so far
    opIdx,        \* index of the (path, method) entry being mapped
    pidx,         \* index inside the loop of the current stage
    toolName,     \* name chosen for the operation being mapped
    parameters,   \* parameters of the operation being mapped
    memo,         \* memoCache of this parse
    frames,       \* active resolveRefs calls, outermost first
    ctl,          \* "idle", "call", "ret" or "throw"
    arg,          \* arguments of the call being entered or just completed
    val,          \* value the completed call returned
    includeResources,  \* the includeResources handed to parse
    pathPrefix,   \* the pathPrefix handed to parse
    returned,     \* tools of the specification parse returned
    baseUrlOverride,  \* the baseUrlOverride handed to parse
    baseUrl,      \* base_url of the specification parse returned
    rawName,      \* the string handed to normalizeToolName
    normalized,   \* what normalizeToolName returned for it
    parsers,      \* this.parsers of the ParserRegistry
    found,        \* the last findParser call: its argument, what it returned and
                  \* how many parsers were registered
    calls,        \* parse calls made on this parser so far
    firstCall,    \* the first of them: what it was given and what came of it
    cache,        \* this.cache of the OCPSchemaDiscovery
    dpc,          \* position of discoverApi
    request,      \* the arguments of the last discoverApi call
    discovered,   \* what that call returned or threw
    parsedSpec,   \* parsedSpec of discoverApi while the unfiltered parse runs
    fetched,      \* per cache key, the call that fetched the document
    discoveries,  \* discoverApi calls made so far
    autoUpdateContext,  \* this.autoUpdateContext of the OCPHTTPClient
    clientBaseUrl,  \* this.baseUrl of the OCPHTTPClient
    history,      \* context.history: the interactions added so far
    requests      \* the calls of request: where each is and what it came to

nameVars == <<rawName, normalized>>
registryVars == <<parsers, found>>
historyVars == <<calls, firstCall>>
discoveryVars == <<cache, dpc, request, discovered, parsedSpec, fetched, discoveries>>

\* The state of the callers of the parser.
clientVars == <<autoUpdateContext, clientBaseUrl, history, requests>>
elsewhereVars == <<discoveryVars, clientVars>>

\* One call of a name helper, the registry, and the record of the calls
\* made: no step inside a parse call touches them.
outside == <<nameVars, registryVars, historyVars, elsewhereVars>>

vars == <<specData, specVersion, pc, outcome, tools, opIdx, pidx, toolName,
          parameters, memo, frames, ctl, arg, val, includeResources,
          pathPrefix, returned, baseUrlOverride, baseUrl, rawName, normalized,
          parsers, found, calls, firstCall, cache, dpc, request, discovered,
          parsedSpec, fetched, discoveries, autoUpdateContext, clientBaseUrl,
          history, requests>>

(***************************************************************************)
(* Bounds                                                                  *)
(***************************************************************************)
\* Deepest nesting of resolveRefs calls the machine enters.
MaxFrames == 14

\* Longest string of NameChars handed to normalizeToolName.
MaxNameLen == 4

(***************************************************************************)
(* JS values                                                               *)
(***************************************************************************)
Undefined == [k |-> "undefined"]
JNull == [k |-> "null"]
JBool(b) == [k |-> "boolean", b |-> b]
JNum(n) == [k |-> "number", n |-> n]
JStr(s) == [k |-> "string", s |-> s]
JArr(a) == [k |-> "array", a |-> a]
JObj(e) == [k |-> "object", e |-> e]

\* typeof v === 'object' && v !== null (arrays included)
IsObjectType(v) == v.k \in {"object", "array"}

\* JS truthiness
Truthy(v) ==
    CASE v.k \in {"undefined", "null"} -> FALSE
      [] v.k = "boolean" -> v.b
      [] v.k = "number" -> v.n # 0
      [] v.k = "string" -> v.s # <<>>
      [] OTHER -> TRUE

\* a || b
OrElse(a, b) == IF Truthy(a) THEN a ELSE b

Digits == <<"0", "1", "2", "3", "4", "5", "6", "7", "8", "9">>

IsDigit(c) == \E i \in 1..10 : Digits[i] = c

DigitVal(c) == (CHOOSE i \in 1..10 : Digits[i] = c) - 1

RECURSIVE DecimalVal(_)
DecimalVal(s) ==
    IF s = <<>> THEN 0
    ELSE 10 * DecimalVal(SubSeq(s, 1, Len(s) - 1)) + DigitVal(s[Len(s)])

\* The array index a property key names, -1 when it names none.
ArrayIndex(key) ==
    IF key # <<>> /\ (\A i \in 1..Len(key) : IsDigit(key[i]))
       /\ (Len(key) = 1 \/ key[1] # "0")
    THEN DecimalVal(key) ELSE -1

RECURSIVE DecimalStr(_)
DecimalStr(n) ==
    IF n < 10 THEN <<Digits[n + 1]>>
    ELSE DecimalStr(n \div 10) \o <<Digits[(n % 10) + 1]>>

STR_length == <<"l", "e", "n", "g", "t", "h">>

\* key in v, for v an object or an array (own properties)
In(v, key) ==
    CASE v.k = "object" -> \E i \in 1..Len(v.e) : v.e[i][1] = key
      [] v.k = "array" ->
            \/ key = STR_length
            \/ (ArrayIndex(key) >= 0 /\ ArrayIndex(key) < Len(v.a))
      [] OTHER -> FALSE

\* v[key]; a primitive has none of the properties the parser reads
Get(v, key) ==
    CASE v.k = "object" ->
            IF In(v, key)
            THEN v.e[CHOOSE i \in 1..Len(v.e) : v.e[i][1] = key][2]
            ELSE Undefined
      [] v.k = "array" ->
            IF key = STR_length THEN JNum(Len(v.a))
            ELSE IF In(v, key) THEN v.a[ArrayIndex(key) + 1]
            ELSE Undefined
      [] OTHER -> Undefined

\* The entries whose key names an array index, by ascending index.
RECURSIVE ascendingIndexEntries(_)
ascendingIndexEntries(es) ==
    IF es = <<>> THEN <<>>
    ELSE LET least == CHOOSE en \in {es[i] : i \in 1..Len(es)} :
                          \A j \in 1..Len(es) : ArrayIndex(en[1]) <= ArrayIndex(es[j][1])
         IN  <<least>> \o ascendingIndexEntries(SelectSeq(es, LAMBDA en : en # least))

\* The order in which the own properties of an object are enumerated: the
\* keys that name an array index first, ascending, then the other keys in
\* the order in which they were inserted (v.e is the insertion order).
ownEntries(es) ==
    ascendingIndexEntries(SelectSeq(es, LAMBDA en : ArrayIndex(en[1]) >= 0))
    \o SelectSeq(es, LAMBDA en : ArrayIndex(en[1]) < 0)

\* Object.entries(v)
Entries(v) ==
    CASE v.k = "object" -> ownEntries(v.e)
      [] v.k = "array" -> [i \in 1..Len(v.a) |-> <<DecimalStr(i - 1), v.a[i]>>]
      [] v.k = "string" -> [i \in 1..Len(v.s) |-> <<DecimalStr(i - 1), JStr(<<v.s[i]>>)>>]
      [] OTHER -> <<>>

\* s.startsWith(prefix)
StartsWith(s, prefix) ==
    Len(s) >= Len(prefix) /\ SubSeq(s, 1, Len(prefix)) = prefix

\* s.split(sep) for a one-character separator
RECURSIVE Split(_, _)
Split(s, sep) ==
    IF \E i \in 1..Len(s) : s[i] = sep
    THEN LET i == CHOOSE j \in 1..Len(s) :
                      s[j] = sep /\ \A h \in 1..(j - 1) : s[h] # sep
         IN  <<SubSeq(s, 1, i - 1)>> \o Split(SubSeq(s, i + 1, Len(s)), sep)
    ELSE <<s>>

(***************************************************************************)
(* String literals of the source                                           *)
(***************************************************************************)
STR_ref == <<"$", "r", "e", "f">>
STR_anyOf == <<"a", "n", "y", "O", "f">>
STR_oneOf == <<"o", "n", "e", "O", "f">>
STR_allOf == <<"a", "l", "l", "O", "f">>
STR_type == <<"t", "y", "p", "e">>
STR_object == <<"o", "b", "j", "e", "c", "t">>
STR_properties == <<"p", "r", "o", "p", "e", "r", "t", "i", "e", "s">>
STR_description == <<"d", "e", "s", "c", "r", "i", "p", "t", "i", "o", "n">>
STR_Circular == <<"C", "i", "r", "c", "u", "l", "a", "r", " ", "r", "e", "f",
    "e", "r", "e", "n", "c", "e">>
STR_Unresolved == <<"U", "n", "r", "e", "s", "o", "l", "v", "e", "d", " ",
    "r", "e", "f", "e", "r", "e", "n", "c", "e">>
STR_hashSlash == <<"#", "/">>
STR_swagger == <<"s", "w", "a", "g", "g", "e", "r">>
STR_openapi == <<"o", "p", "e", "n", "a", "p", "i">>
STR_paths == <<"p", "a", "t", "h", "s">>
STR_operationId == <<"o", "p", "e", "r", "a", "t", "i", "o", "n", "I", "d">>
STR_parameters == <<"p", "a", "r", "a", "m", "e", "t", "e", "r", "s">>
STR_name == <<"n", "a", "m", "e">>
STR_in == <<"i", "n">>
STR_location == <<"l", "o", "c", "a", "t", "i", "o", "n">>
STR_query == <<"q", "u", "e", "r", "y">>
STR_body == <<"b", "o", "d", "y">>
STR_required == <<"r", "e", "q", "u", "i", "r", "e", "d">>
STR_schema == <<"s", "c", "h", "e", "m", "a">>
STR_enum == <<"e", "n", "u", "m">>
STR_format == <<"f", "o", "r", "m", "a", "t">>
STR_string == <<"s", "t", "r", "i", "n", "g">>
STR_requestBody == <<"r", "e", "q", "u", "e", "s", "t", "B", "o", "d", "y">>
STR_content == <<"c", "o", "n", "t", "e", "n", "t">>
STR_appJson == <<"a", "p", "p", "l", "i", "c", "a", "t", "i", "o", "n", "/",
    "j", "s", "o", "n">>
STR_responses == <<"r", "e", "s", "p", "o", "n", "s", "e", "s">>
STR_summary == <<"s", "u", "m", "m", "a", "r", "y">>
STR_tags == <<"t", "a", "g", "s">>
STR_NoDescription == <<"N", "o", " ", "d", "e", "s", "c", "r", "i", "p", "t",
    "i", "o", "n", " ", "p", "r", "o", "v", "i", "d", "e", "d">>

(***************************************************************************)
(* resolveRefs and lookupRef                                               *)
(***************************************************************************)
\* { type: 'object', description: 'Circular reference' }
CircularPlaceholder ==
    JObj(<< <<STR_type, JStr(STR_object)>>,
            <<STR_description, JStr(STR_Circular)>> >>)

\* { type: 'object', description: 'Unresolved reference' }
UnresolvedPlaceholder ==
    JObj(<< <<STR_type, JStr(STR_object)>>,
            <<STR_description, JStr(STR_Unresolved)>> >>)

EmptyMemo == [p \in {} |-> Undefined]

\* Variant: the write forgets every other entry of the cache.
MemoReset(m, p, v) == [q \in {p} |-> v]

\* memo[p] = v
MemoSet(m, p, v) == [q \in DOMAIN m \cup {p} |-> IF q = p THEN v ELSE m[q]]

NoArg == [obj |-> Undefined, stack |-> <<>>, poly |-> FALSE]

\* The loop of lookupRef over pathParts.
RECURSIVE Navigate(_, _)
Navigate(current, pathParts) ==
    IF pathParts = <<>> THEN current
    ELSE IF IsObjectType(current) /\ In(current, Head(pathParts))
         THEN Navigate(Get(current, Head(pathParts)), Tail(pathParts))
         ELSE JNull

lookupRef(root, refPath) ==
    IF ~StartsWith(refPath, STR_hashSlash) THEN JNull
    ELSE Navigate(root, Split(SubSeq(refPath, 3, Len(refPath)), "/"))

\* v is the string s
IsStr(v, s) == v.k = "string" /\ v.s = s

\* The try block taken when insidePolymorphicKeyword is set: TRUE when the
\* $ref node is returned as it is.  For a primitive target the test
\* 'properties' in resolved raises TypeError, and the catch returns obj.
keepsRef(resolved) ==
    CASE resolved.k = "null" -> FALSE
      [] IsObjectType(resolved) ->
            IsStr(Get(resolved, STR_type), STR_object) \/ In(resolved, STR_properties)
      [] OTHER -> TRUE

\* Variant: no pointer is ever found on the stack.
stackNeverIncludes(resolutionStack, refPath) == FALSE

\* Variant: only the innermost pointer of the stack is compared.
stackIncludesLast(resolutionStack, refPath) ==
    /\ resolutionStack # <<>>
    /\ resolutionStack[Len(resolutionStack)] = refPath

\* resolutionStack.includes(refPath)
stackIncludes(resolutionStack, refPath) ==
    \E i \in 1..Len(resolutionStack) : resolutionStack[i] = refPath

\* '$ref' in obj && Object.keys(obj).length === 1
isRefNode(obj) == obj.k = "object" /\ In(obj, STR_ref) /\ Len(obj.e) = 1

\* The composition keyword resolveRefs handles obj under, <<>> when none.
compositionKeyword(obj) ==
    IF In(obj, STR_anyOf) THEN STR_anyOf
    ELSE IF In(obj, STR_oneOf) THEN STR_oneOf
    ELSE IF In(obj, STR_allOf) THEN STR_allOf
    ELSE <<>>

\* Entries of obj whose key is not kw, in order.
otherEntries(obj, kw) == SelectSeq(Entries(obj), LAMBDA en : en[1] # kw)

\* An active call: what it was called with, the calls it makes in order
\* (node and insidePolymorphicKeyword flag of each, all with the stack
\* cstack), and the results it has back so far.
Frame(kind, a, key, cstack) ==
    [kind |-> kind, obj |-> a.obj, stack |-> a.stack, poly |-> a.poly,
     key |-> key, cstack |-> cstack, acc |-> <<>>]

children(f) ==
    CASE f.kind = "composition" ->
            LET items == Get(f.obj, f.key).a
                rest == otherEntries(f.obj, f.key)
            IN  [i \in 1..Len(items) |-> [obj |-> items[i], poly |-> TRUE]]
                \o [i \in 1..Len(rest) |-> [obj |-> rest[i][2], poly |-> f.poly]]
      [] f.kind = "mapping" ->
            LET es == Entries(f.obj) IN
            [i \in 1..Len(es) |-> [obj |-> es[i][2], poly |-> f.poly]]
      [] f.kind = "array" ->
            [i \in 1..Len(f.obj.a) |-> [obj |-> f.obj.a[i], poly |-> f.poly]]
      [] f.kind = "ref" ->
            <<[obj |-> lookupRef(specData, f.key), poly |-> f.poly]>>

\* The value a call returns once all the calls it makes have returned acc.
result(f, acc) ==
    CASE f.kind = "composition" ->
            LET n == Len(Get(f.obj, f.key).a)
                rest == otherEntries(f.obj, f.key)
            IN  JObj(<< <<f.key, JArr(SubSeq(acc, 1, n))>> >>
                     \o [i \in 1..Len(rest) |-> <<rest[i][1], acc[n + i]>>])
      [] f.kind = "mapping" ->
            LET es == Entries(f.obj) IN
            JObj([i \in 1..Len(es) |-> <<es[i][1], acc[i]>>])
      [] f.kind = "array" -> JArr(acc)
      [] f.kind = "ref" -> acc[1]

\* Outcomes of entering a call.
Returns(v, m) == [ctl |-> "ret", val |-> v, memo |-> m, push |-> <<>>]
Throws(m) == [ctl |-> "throw", val |-> Undefined, memo |-> m, push |-> <<>>]
Recurses(f, m) == [ctl |-> "call", val |-> Undefined, memo |-> m, push |-> <<f>>]

\* Variant: a cycle returns the placeholder without memoizing it.
resolveRefNodeUnmemoized(a, m) ==
    LET refPath == a.obj.e[1][2] IN
    IF refPath.k # "string" THEN Throws(m)
    ELSE IF ~StartsWith(refPath.s, STR_hashSlash) THEN Returns(a.obj, m)
    ELSE IF a.poly /\ keepsRef(lookupRef(specData, refPath.s)) THEN Returns(a.obj, m)
    ELSE IF refPath.s \in DOMAIN m THEN Returns(m[refPath.s], m)
    ELSE IF stackIncludes(a.stack, refPath.s) THEN Returns(CircularPlaceholder, m)
    ELSE IF lookupRef(specData, refPath.s) # JNull
         THEN Recurses(Frame("ref", a, refPath.s, Append(a.stack, refPath.s)), m)
    ELSE Returns(a.obj, m)

\* The pure $ref branch of resolveRefs, up to its first recursive call.
resolveRefNode(a, m) ==
    LET refPath == a.obj.e[1][2] IN
    IF refPath.k # "string" THEN Throws(m)      \* refPath.startsWith is no function
    ELSE IF ~StartsWith(refPath.s, STR_hashSlash) THEN Returns(a.obj, m)
    ELSE IF a.poly /\ keepsRef(lookupRef(specData, refPath.s)) THEN Returns(a.obj, m)
    ELSE IF refPath.s \in DOMAIN m THEN Returns(m[refPath.s], m)
    ELSE IF stackIncludes(a.stack, refPath.s)
         THEN Returns(CircularPlaceholder, MemoSet(m, refPath.s, CircularPlaceholder))
    ELSE IF lookupRef(specData, refPath.s) # JNull
         THEN Recurses(Frame("ref", a, refPath.s, Append(a.stack, refPath.s)), m)
    ELSE Returns(a.obj, m)

\* resolveRefs(a.obj, specData, a.stack, m, a.poly) up to its first
\* recursive call.
enterCall(a, m) ==
    IF a.obj.k = "object" THEN
        IF compositionKeyword(a.obj) # <<>> THEN
            LET f == Frame("composition", a, compositionKeyword(a.obj), a.stack) IN
            IF Get(a.obj, f.key).k # "array" THEN Throws(m)   \* .map is no function
            ELSE IF children(f) = <<>> THEN Returns(result(f, <<>>), m)
            ELSE Recurses(f, m)
        ELSE IF isRefNode(a.obj) THEN resolveRefNode(a, m)
        ELSE IF a.obj.e = <<>> THEN Returns(JObj(<<>>), m)
        ELSE Recurses(Frame("mapping", a, <<>>, a.stack), m)
    ELSE IF a.obj.k = "array" THEN
        IF a.obj.a = <<>> THEN Returns(JArr(<<>>), m)
        ELSE Recurses(Frame("array", a, <<>>, a.stack), m)
    ELSE Returns(a.obj, m)

\* Entering the pending call: it returns, raises, or makes its first
\* recursive call.
Enter ==
    /\ ctl = "call"
    /\ LET r == enterCall(arg, memo) IN
        /\ r.push # <<>> => Len(frames) < MaxFrames
        /\ ctl' = r.ctl
        /\ val' = r.val
        /\ memo' = r.memo
        /\ frames' = frames \o r.push
        /\ arg' = IF r.push = <<>> THEN arg
                  ELSE [obj |-> children(r.push[1])[1].obj,
                        stack |-> r.push[1].cstack,
                        poly |-> children(r.push[1])[1].poly]
    /\ UNCHANGED <<outside, includeResources, pathPrefix, baseUrlOverride,
                   baseUrl, returned,
                   specData, specVersion, pc, outcome, tools, opIdx, pidx,
                   toolName, parameters>>

\* current with the value under pathParts replaced by x, where lookupRef
\* finds one through objects.
RECURSIVE Replaced(_, _, _)
Replaced(current, pathParts, x) ==
    IF pathParts = <<>> THEN x
    ELSE IF current.k = "object" /\ In(current, Head(pathParts))
         THEN JObj([i \in 1..Len(current.e) |->
                  IF current.e[i][1] = Head(pathParts)
                  THEN <<current.e[i][1], Replaced(current.e[i][2], Tail(pathParts), x)>>
                  ELSE current.e[i]])
         ELSE current

\* Variant: a resolver that dereferences in place, putting the resolved
\* object where the pointer leads.
rootDereferenced(root, refPath, resolvedObj) ==
    Replaced(root, Split(SubSeq(refPath, 3, Len(refPath)), "/"), resolvedObj)

\* root once the $ref branch has resolved refPath to resolvedObj: the
\* resolved object is built by the recursive calls out of new objects and
\* stored in memo, root is only read.
rootResolved(root, refPath, resolvedObj) == root

\* A recursive call has returned val to the innermost active call, which
\* makes its next call or returns itself (a $ref call memoizes first).
Return ==
    /\ ctl = "ret"
    /\ frames # <<>>
    /\ LET f == frames[Len(frames)]
           acc == Append(f.acc, val)
           ch == children(f)
       IN  IF Len(acc) < Len(ch)
           THEN /\ frames' = [frames EXCEPT ![Len(frames)].acc = acc]
                /\ ctl' = "call"
                /\ arg' = [obj |-> ch[Len(acc) + 1].obj, stack |-> f.cstack,
                           poly |-> ch[Len(acc) + 1].poly]
                /\ val' = Undefined
                /\ memo' = memo
                /\ specData' = specData
           ELSE /\ frames' = SubSeq(frames, 1, Len(frames) - 1)
                /\ ctl' = "ret"
                /\ arg' = [obj |-> f.obj, stack |-> f.stack, poly |-> f.poly]
                /\ val' = result(f, acc)
                /\ memo' = IF f.kind = "ref" THEN MemoSet(memo, f.key, result(f, acc))
                           ELSE memo
                /\ specData' = IF f.kind = "ref" THEN rootResolved(specData, f.key, result(f, acc))
                               ELSE specData
    /\ UNCHANGED <<outside, includeResources, pathPrefix, baseUrlOverride,
                   baseUrl, returned,
                   specVersion, pc, outcome, tools, opIdx, pidx,
                   toolName, parameters>>

\* A recursive call has raised: a $ref call catches, memoizes and returns
\* the unresolved placeholder, any other call lets the error through.
Unwind ==
    /\ ctl = "throw"
    /\ frames # <<>>
    /\ LET f == frames[Len(frames)] IN
        /\ frames' = SubSeq(frames, 1, Len(frames) - 1)
        /\ arg' = [obj |-> f.obj, stack |-> f.stack, poly |-> f.poly]
        /\ IF f.kind = "ref"
           THEN /\ ctl' = "ret"
                /\ val' = UnresolvedPlaceholder
                /\ memo' = MemoSet(memo, f.key, UnresolvedPlaceholder)
           ELSE /\ ctl' = "throw"
                /\ val' = Undefined
                /\ memo' = memo
    /\ UNCHANGED <<outside, includeResources, pathPrefix, baseUrlOverride,
                   baseUrl, returned,
                   specData, specVersion, pc, outcome, tools, opIdx, pidx,
                   toolName, parameters>>

(***************************************************************************)
(* Tool names                                                              *)
(***************************************************************************)
LowerCase == <<"a", "b", "c", "d", "e", "f", "g", "h", "i", "j", "k", "l", "m",
    "n", "o", "p", "q", "r", "s", "t", "u", "v", "w", "x", "y", "z">>
UpperCase == <<"A", "B", "C", "D", "E", "F", "G", "H", "I", "J", "K", "L", "M",
    "N", "O", "P", "Q", "R", "S", "T", "U", "V", "W", "X", "Y", "Z">>

IsLower(c) == \E i \in 1..Len(LowerCase) : LowerCase[i] = c
IsUpper(c) == \E i \in 1..Len(UpperCase) : UpperCase[i] = c

toLowerCase(s) ==
    [i \in 1..Len(s) |->
        IF IsUpper(s[i])
        THEN LowerCase[CHOOSE j \in 1..Len(UpperCase) : UpperCase[j] = s[i]]
        ELSE s[i]]

toUpperCase(s) ==
    [i \in 1..Len(s) |->
        IF IsLower(s[i])
        THEN UpperCase[CHOOSE j \in 1..Len(LowerCase) : LowerCase[j] = s[i]]
        ELSE s[i]]

\* Variant: no boundary is inserted before an upper-case letter.
keepPascal(s) == s

\* name.replace(/([a-z0-9])([A-Z])/g, '$1 $2'): a match ends in an upper-case
\* letter, which starts no match, so the scan may go on one character later.
RECURSIVE pascalSplit(_)
pascalSplit(s) ==
    IF Len(s) < 2 THEN s
    ELSE IF (IsLower(s[1]) \/ IsDigit(s[1])) /\ IsUpper(s[2])
         THEN <<s[1], " ">> \o pascalSplit(Tail(s))
         ELSE <<s[1]>> \o pascalSplit(Tail(s))

IsSeparator(c) == c \in {"/", "_", ".", "-"}

\* s.replace(/[\/_.-]+/g, ' ')
RECURSIVE replaceSeparators(_)
replaceSeparators(s) ==
    IF s = <<>> THEN <<>>
    ELSE IF IsSeparator(s[1])
         THEN IF Len(s) >= 2 /\ IsSeparator(s[2])
              THEN replaceSeparators(Tail(s))
              ELSE <<" ">> \o replaceSeparators(Tail(s))
         ELSE <<s[1]>> \o replaceSeparators(Tail(s))

\* words[i].charAt(0).toUpperCase() + words[i].slice(1).toLowerCase()
capitalize(w) == toUpperCase(SubSeq(w, 1, 1)) \o toLowerCase(Tail(w))

RECURSIVE joinWords(_)
joinWords(ws) == IF ws = <<>> THEN <<>> ELSE Head(ws) \o joinWords(Tail(ws))

normalizeToolName(name) ==
    IF name = <<>> THEN name
    ELSE LET words == SelectSeq(Split(replaceSeparators(pascalSplit(name)), " "),
                                LAMBDA w : w # <<>>)
         IN  IF words = <<>> THEN name
             ELSE joinWords([i \in 1..Len(words) |->
                     IF i = 1 THEN toLowerCase(words[i]) ELSE capitalize(words[i])])

\* Variant: a name may start with a digit too.
isValidAlphanumericStart(name) ==
    /\ name # <<>>
    /\ (IsLower(name[1]) \/ IsUpper(name[1]) \/ IsDigit(name[1]))

isValidToolName(name) ==
    /\ name # <<>>
    /\ (IsLower(name[1]) \/ IsUpper(name[1]))
    /\ \E i \in 1..Len(name) : IsLower(name[i]) \/ IsUpper(name[i]) \/ IsDigit(name[i])

\* Variant: the slashes of the path are dropped, not turned into '_'.
cleanPathWithoutSlashes(path) == SelectSeq(path, LAMBDA c : c \notin {"/", "{", "}"})

\* path.replace(/\//g, '_').replace(/[{}]/g, '')
cleanPath(path) ==
    SelectSeq([i \in 1..Len(path) |-> IF path[i] = "/" THEN "_" ELSE path[i]],
              LAMBDA c : c \notin {"{", "}"})

\* The name createToolFromOperation settles on: <<>> when it finds none.
\* operationId is a string or falsy here.
chooseToolName(path, method, operationId) ==
    LET normalizedName == normalizeToolName(operationId.s)
        normalizedFallback == normalizeToolName(toLowerCase(method) \o cleanPath(path))
    IN  IF Truthy(operationId) /\ isValidToolName(normalizedName) THEN normalizedName
        ELSE IF isValidToolName(normalizedFallback) THEN normalizedFallback
        ELSE <<>>

(***************************************************************************)
(* parse                                                                   *)
(***************************************************************************)
\* Variant: head and options are mapped too.
METHODS_WITH_HEAD_AND_OPTIONS ==
    {<<"g", "e", "t">>, <<"p", "o", "s", "t">>, <<"p", "u", "t">>,
     <<"p", "a", "t", "c", "h">>, <<"d", "e", "l", "e", "t", "e">>,
     <<"h", "e", "a", "d">>, <<"o", "p", "t", "i", "o", "n", "s">>}

\* ['get', 'post', 'put', 'patch', 'delete']
SUPPORTED_HTTP_METHODS ==
    {<<"g", "e", "t">>, <<"p", "o", "s", "t">>, <<"p", "u", "t">>,
     <<"p", "a", "t", "c", "h">>, <<"d", "e", "l", "e", "t", "e">>}

\* ['POST', 'PUT', 'PATCH']
BODY_METHODS ==
    {<<"P", "O", "S", "T">>, <<"P", "U", "T">>, <<"P", "A", "T", "C", "H">>}

\* Variant: the openapi field is looked at before the swagger field.
detectOpenapiFirst(spec) ==
    IF In(spec, STR_openapi) THEN
        LET openapiVersion == Get(spec, STR_openapi) IN
        IF openapiVersion.k # "string" THEN "UnsupportedVersion"
        ELSE IF StartsWith(openapiVersion.s, <<"3", ".", "0">>) THEN "openapi_3.0"
        ELSE IF StartsWith(openapiVersion.s, <<"3", ".", "1">>) THEN "openapi_3.1"
        ELSE IF StartsWith(openapiVersion.s, <<"3", ".", "2">>) THEN "openapi_3.2"
        ELSE "UnsupportedVersion"
    ELSE IF In(spec, STR_swagger) THEN
        LET swaggerVersion == Get(spec, STR_swagger) IN
        IF swaggerVersion.k = "string" /\ StartsWith(swaggerVersion.s, <<"2", ".">>)
        THEN "swagger_2" ELSE "UnsupportedVersion"
    ELSE "MissingVersionField"

\* Variant: the version an earlier call detected is kept.
detectUnlessDetected(spec) ==
    IF specVersion # "unset" THEN specVersion
    ELSE IF In(spec, STR_swagger) THEN
        (IF Get(spec, STR_swagger).k = "string" /\ StartsWith(Get(spec, STR_swagger).s, <<"2", ".">>)
         THEN "swagger_2" ELSE "UnsupportedVersion")
    ELSE IF In(spec, STR_openapi) THEN
        (IF Get(spec, STR_openapi).k = "string" /\ StartsWith(Get(spec, STR_openapi).s, <<"3", ".">>)
         THEN "openapi_3.0" ELSE "UnsupportedVersion")
    ELSE "MissingVersionField"

\* The version tag, or the kind of the SchemaDiscoveryError raised.
detectSpecVersion(spec) ==
    IF In(spec, STR_swagger) THEN
        LET swaggerVersion == Get(spec, STR_swagger) IN
        IF swaggerVersion.k = "string" /\ StartsWith(swaggerVersion.s, <<"2", ".">>)
        THEN "swagger_2" ELSE "UnsupportedVersion"
    ELSE IF In(spec, STR_openapi) THEN
        LET openapiVersion == Get(spec, STR_openapi) IN
        IF openapiVersion.k # "string" THEN "UnsupportedVersion"
        ELSE IF StartsWith(openapiVersion.s, <<"3", ".", "0">>) THEN "openapi_3.0"
        ELSE IF StartsWith(openapiVersion.s, <<"3", ".", "1">>) THEN "openapi_3.1"
        ELSE IF StartsWith(openapiVersion.s, <<"3", ".", "2">>) THEN "openapi_3.2"
        ELSE "UnsupportedVersion"
    ELSE "MissingVersionField"

VersionTags == {"swagger_2", "openapi_3.0", "openapi_3.1", "openapi_3.2"}

\* The (path, method, operation) triples the two loops of parseOpenApiSpec
\* visit, in order.
RECURSIVE flatten(_)
flatten(ss) == IF ss = <<>> THEN <<>> ELSE Head(ss) \o flatten(Tail(ss))

pathEntries(spec) ==
    LET paths == Entries(OrElse(Get(spec, STR_paths), JObj(<<>>))) IN
    flatten([i \in 1..Len(paths) |->
        IF ~IsObjectType(paths[i][2]) THEN <<>>
        ELSE LET item == Entries(paths[i][2]) IN
             [j \in 1..Len(item) |->
                [path |-> paths[i][1], method |-> item[j][1], operation |-> item[j][2]]]])

\* The values a for-of loop over operation.parameters || [] visits.
Iterable(v) == v.k \in {"array", "string"}

parameterList(operation) ==
    LET ps == OrElse(Get(operation, STR_parameters), JArr(<<>>)) IN
    IF ps.k = "array" THEN ps.a
    ELSE [i \in 1..Len(ps.s) |-> JStr(<<ps.s[i]>>)]

\* obj[key] = v
SetProp(obj, key, v) ==
    IF In(obj, key)
    THEN JObj([i \in 1..Len(obj.e) |-> IF obj.e[i][1] = key THEN <<key, v>> ELSE obj.e[i]])
    ELSE JObj(Append(obj.e, <<key, v>>))

\* Variant: a key the target has keeps its value.
RECURSIVE AssignMissing(_, _)
AssignMissing(target, source) ==
    IF source = <<>> THEN target
    ELSE AssignMissing(IF In(target, Head(source)[1]) THEN target
                       ELSE SetProp(target, Head(source)[1], Head(source)[2]),
                       Tail(source))

\* Object.assign(target, source)
RECURSIVE Assign(_, _)
Assign(target, source) ==
    IF source = <<>> THEN target
    ELSE Assign(SetProp(target, Head(source)[1], Head(source)[2]), Tail(source))

\* The ParameterSpec parseParameters stores for param, given its resolved
\* schema (an object or an array: 'enum' in a primitive raises).
parameterSpec(param, resolvedSchema) ==
    JObj(<< <<STR_description, OrElse(Get(param, STR_description), JStr(<<>>))>>,
            <<STR_required, OrElse(Get(param, STR_required), JBool(FALSE))>>,
            <<STR_location,
              OrElse(Get(param, STR_in), JStr(STR_query))>>,
            <<STR_type, OrElse(Get(resolvedSchema, STR_type), JStr(STR_string))>> >>
         \o (IF In(resolvedSchema, STR_enum)
             THEN << <<STR_enum, Get(resolvedSchema, STR_enum)>> >> ELSE <<>>)
         \o (IF In(resolvedSchema, STR_format)
             THEN << <<STR_format, Get(resolvedSchema, STR_format)>> >> ELSE <<>>))

\* s.includes(sub)
Contains(s, sub) ==
    \E i \in 0..(Len(s) - Len(sub)) : SubSeq(s, i + 1, i + Len(sub)) = sub

\* Variant: every property is required as soon as one is named.
requiredNonEmpty(required, name) ==
    IF required.k = "array" THEN required.a # <<>> ELSE required.s # <<>>

\* required.includes(name): an array holds the string, a string contains it.
requiredIncludes(required, name) ==
    IF required.k = "array"
    THEN \E i \in 1..Len(required.a) : IsStr(required.a[i], name)
    ELSE Contains(required.s, name)

\* The body parameters parseOpenApi3RequestBody and parseSwagger2BodyParameter
\* derive from the resolved schema: their entries, and whether computing
\* them raises (required.includes is no function).
bodyParameters(schema) ==
    IF ~IsStr(Get(schema, STR_type), STR_object) THEN [throws |-> FALSE, e |-> <<>>]
    ELSE LET properties == OrElse(Get(schema, STR_properties), JObj(<<>>))
             required == OrElse(Get(schema, STR_required), JArr(<<>>))
             props == SelectSeq(Entries(properties), LAMBDA en : IsObjectType(en[2]))
         IN  IF props # <<>> /\ ~Iterable(required) THEN [throws |-> TRUE, e |-> <<>>]
             ELSE [throws |-> FALSE,
                   e |-> [i \in 1..Len(props) |->
                       <<props[i][1],
                         JObj(<< <<STR_description,
                                   OrElse(Get(props[i][2], STR_description), JStr(<<>>))>>,
                                 <<STR_required,
                                   JBool(requiredIncludes(required, props[i][1]))>>,
                                 <<STR_location, JStr(STR_body)>>,
                                 <<STR_type,
                                   OrElse(Get(props[i][2], STR_type), JStr(STR_string))>> >>
                              \o (IF In(props[i][2], STR_enum)
                                  THEN << <<STR_enum, Get(props[i][2], STR_enum)>> >>
                                  ELSE <<>>))>>]]

\* content['application/json'].schema of a request body or response, when
\* both are truthy; Undefined otherwise.
jsonSchema(holder) ==
    LET jsonContent == Get(OrElse(Get(holder, STR_content), JObj(<<>>)), STR_appJson) IN
    IF Truthy(jsonContent) /\ Truthy(Get(jsonContent, STR_schema))
    THEN Get(jsonContent, STR_schema) ELSE Undefined

\* The schema parseResponses resolves: that of the first entry whose key
\* starts with '2', whose value is an object and which has a schema.
responseSchema(responses, version) ==
    LET es == Entries(responses)
        schemaOf(r) == IF version = "swagger_2"
                       THEN (IF Truthy(Get(r, STR_schema)) THEN Get(r, STR_schema)
                             ELSE Undefined)
                       ELSE jsonSchema(r)
        hit(i) == /\ StartsWith(es[i][1], <<"2">>)
                  /\ IsObjectType(es[i][2])
                  /\ schemaOf(es[i][2]) # Undefined
    IN  IF \E i \in 1..Len(es) : hit(i)
        THEN schemaOf(es[CHOOSE i \in 1..Len(es) : hit(i) /\ \A j \in 1..(i - 1) : ~hit(j)][2])
        ELSE Undefined

\* The entry of pathEntries the loops are at.
entry == pathEntries(specData)[opIdx]

\* Leaving the resolver: nothing is pending.
resolverIdle == ctl' = "idle" /\ arg' = NoArg /\ val' = Undefined

\* resolveRefs(schema, specData, [], memoCache)
resolve(schema) ==
    /\ ctl' = "call"
    /\ arg' = [obj |-> schema, stack |-> <<>>, poly |-> FALSE]
    /\ val' = Undefined

\* parse raises: nothing is returned.
raise(kind) == pc' = "done" /\ outcome' = kind

\* String(v) of a template literal, for the values a document holds: a
\* number is a natural number here.
RECURSIVE templateString(_)
templateString(v) ==
    CASE v.k = "string" -> v.s
      [] v.k = "number" -> DecimalStr(v.n)
      [] v.k = "boolean" -> IF v.b THEN <<"t", "r", "u", "e">> ELSE <<"f", "a", "l", "s", "e">>
      [] v.k = "null" -> <<"n", "u", "l", "l">>
      [] v.k = "undefined" -> <<"u", "n", "d", "e", "f", "i", "n", "e", "d">>
      [] v.k = "object" -> <<"[", "o", "b", "j", "e", "c", "t", " ", "O", "b", "j", "e", "c", "t", "]">>
      [] v.k = "array" ->
            IF v.a = <<>> THEN <<>>
            ELSE LET item(i) == IF v.a[i].k \in {"null", "undefined"} THEN <<>>
                                ELSE templateString(v.a[i])
                     join[i \in 1..Len(v.a)] ==
                         IF i = 1 THEN item(1) ELSE join[i - 1] \o <<",">> \o item(i)
                 IN  join[Len(v.a)]

\* v.length > 0
lengthPositive(v) ==
    CASE v.k = "array" -> v.a # <<>>
      [] v.k = "string" -> v.s # <<>>
      [] v.k = "object" -> Get(v, STR_length).k = "number" /\ Get(v, STR_length).n > 0
      [] OTHER -> FALSE

\* Variant: the first character of a string, the last item of an array.
last(v) ==
    CASE v.k = "string" -> IF v.s = <<>> THEN Undefined ELSE JStr(<<v.s[1]>>)
      [] v.k = "array" -> IF v.a = <<>> THEN Undefined ELSE v.a[Len(v.a)]
      [] OTHER -> Get(v, <<"0">>)

\* v[0]
first(v) ==
    CASE v.k = "string" -> IF v.s = <<>> THEN Undefined ELSE JStr(<<v.s[1]>>)
      [] OTHER -> Get(v, <<"0">>)

\* extractBaseUrl(spec) under the detected version: the value returned, or
\* that reading url of a first servers entry that is null or undefined
\* raises.
extractBaseUrl(spec, version) ==
    IF version = "swagger_2"
    THEN LET schemes == OrElse(Get(spec, <<"s", "c", "h", "e", "m", "e", "s">>), JArr(<<JStr(<<"h", "t", "t", "p", "s">>)>>))
             host == OrElse(Get(spec, <<"h", "o", "s", "t">>), JStr(<<>>))
             basePath == OrElse(Get(spec, <<"b", "a", "s", "e", "P", "a", "t", "h">>), JStr(<<>>))
             scheme == IF lengthPositive(schemes) THEN first(schemes) ELSE JStr(<<"h", "t", "t", "p", "s">>)
         IN  [throws |-> FALSE,
              v |-> IF Truthy(host)
                    THEN JStr(templateString(scheme) \o <<":", "/", "/">> \o templateString(host) \o templateString(basePath))
                    ELSE JStr(<<>>)]
    ELSE LET servers == Get(spec, <<"s", "e", "r", "v", "e", "r", "s">>) IN
         IF Truthy(servers) /\ lengthPositive(servers)
         THEN IF first(servers).k \in {"null", "undefined"}
              THEN [throws |-> TRUE, v |-> Undefined]
              ELSE [throws |-> FALSE, v |-> OrElse(Get(first(servers), <<"u", "r", "l">>), JStr(<<>>))]
         ELSE [throws |-> FALSE, v |-> JStr(<<>>)]

\* parse, up to the loops of parseOpenApiSpec: detectSpecVersion raises or
\* sets specVersion, memoCache is created, and the base URL is the override
\* or extracted.
Detect ==
    /\ pc = "parse"
    /\ LET v == detectSpecVersion(specData)
           extracted == extractBaseUrl(specData, v)
       IN  IF v \notin VersionTags
           THEN specVersion' = specVersion /\ raise(v) /\ UNCHANGED <<baseUrl, memo>>
           ELSE IF ~Truthy(baseUrlOverride) /\ extracted.throws
           THEN /\ specVersion' = v
                /\ raise("TypeError")
                /\ memo' = EmptyMemo
                /\ baseUrl' = baseUrl
           ELSE /\ specVersion' = v
                /\ pc' = "paths"
                /\ outcome' = outcome
                /\ memo' = EmptyMemo
                /\ baseUrl' = IF Truthy(baseUrlOverride) THEN baseUrlOverride
                              ELSE extracted.v
    /\ UNCHANGED <<outside, includeResources, pathPrefix, baseUrlOverride, returned,
                   specData, tools, opIdx, pidx, toolName, parameters,
                   frames, ctl, arg, val>>

\* One turn of the inner loop of parseOpenApiSpec, up to the loop of
\* parseParameters: the key is skipped, or createToolFromOperation returns
\* null, raises, or settles the name and starts on the parameters.
Operation ==
    /\ pc = "paths"
    /\ opIdx <= Len(pathEntries(specData))
    /\ LET operation == entry.operation
           operationId == Get(operation, STR_operationId)
           name == chooseToolName(entry.path, entry.method, operationId)
       IN  IF \/ toLowerCase(entry.method) \notin SUPPORTED_HTTP_METHODS
              \/ ~Truthy(operation) \/ ~IsObjectType(operation)
           THEN /\ opIdx' = opIdx + 1
                /\ UNCHANGED <<pc, outcome, pidx, toolName, parameters>>
           ELSE IF Truthy(operationId) /\ operationId.k # "string"
           THEN \* name.replace is no function
                /\ raise("TypeError")
                /\ UNCHANGED <<opIdx, pidx, toolName, parameters>>
           ELSE IF name = <<>>
           THEN /\ opIdx' = opIdx + 1
                /\ UNCHANGED <<pc, outcome, pidx, toolName, parameters>>
           ELSE IF ~Iterable(OrElse(Get(operation, STR_parameters), JArr(<<>>)))
           THEN \* parameters is not iterable
                /\ raise("TypeError")
                /\ UNCHANGED <<opIdx, pidx, toolName, parameters>>
           ELSE /\ pc' = "parameters"
                /\ pidx' = 1
                /\ toolName' = name
                /\ parameters' = JObj(<<>>)
                /\ UNCHANGED <<opIdx, outcome>>
    /\ UNCHANGED <<outside, includeResources, pathPrefix, baseUrlOverride,
                   baseUrl, returned,
                   specData, specVersion, tools, memo, frames, ctl, arg, val>>

\* One turn of the loop of parseParameters, up to its call of resolveRefs.
Parameter ==
    /\ pc = "parameters"
    /\ LET ps == parameterList(entry.operation) IN
        IF pidx > Len(ps)
        THEN /\ pc' = "body"
             /\ pidx' = 1
             /\ UNCHANGED <<ctl, arg, val>>
        ELSE IF \/ ~Truthy(ps[pidx]) \/ ~IsObjectType(ps[pidx])
                \/ ~Truthy(Get(ps[pidx], STR_name))
        THEN /\ pidx' = pidx + 1
             /\ UNCHANGED <<pc, ctl, arg, val>>
        ELSE /\ pc' = "parameterSchema"
             /\ resolve(OrElse(Get(ps[pidx], STR_schema), JObj(<<>>)))
             /\ pidx' = pidx
    /\ UNCHANGED <<outside, includeResources, pathPrefix, baseUrlOverride,
                   baseUrl, returned,
                   specData, specVersion, outcome, tools, opIdx, toolName,
                   parameters, memo, frames>>

\* The rest of the turn: the ParameterSpec is stored under the name, or
\* 'enum' in resolvedSchema raises on a primitive.
ParameterDone ==
    /\ pc = "parameterSchema"
    /\ ctl = "ret"
    /\ frames = <<>>
    /\ LET param == parameterList(entry.operation)[pidx] IN
        IF ~IsObjectType(val)
        THEN raise("TypeError") /\ UNCHANGED <<pidx, parameters>>
        ELSE /\ parameters' = SetProp(parameters, Get(param, STR_name).s,
                                      parameterSpec(param, val))
             /\ pidx' = pidx + 1
             /\ pc' = "parameters"
             /\ outcome' = outcome
    /\ resolverIdle
    /\ UNCHANGED <<outside, includeResources, pathPrefix, baseUrlOverride,
                   baseUrl, returned,
                   specData, specVersion, tools, opIdx, toolName, memo, frames>>

\* The request-body part of createToolFromOperation, up to a call of
\* resolveRefs: one turn of the loop over the parameters for Swagger 2,
\* parseOpenApi3RequestBody otherwise.
RequestBody ==
    /\ pc = "body"
    /\ LET operation == entry.operation
           ps == parameterList(operation)
           requestBody == Get(operation, STR_requestBody)
       IN  IF toUpperCase(entry.method) \notin BODY_METHODS
           THEN /\ pc' = "responses"
                /\ pidx' = 1
                /\ UNCHANGED <<ctl, arg, val>>
           ELSE IF specVersion = "swagger_2"
           THEN IF pidx > Len(ps)
                THEN /\ pc' = "responses"
                     /\ pidx' = 1
                     /\ UNCHANGED <<ctl, arg, val>>
                ELSE IF \/ ~Truthy(ps[pidx]) \/ ~IsObjectType(ps[pidx])
                        \/ ~IsStr(Get(ps[pidx], STR_in), STR_body)
                        \/ ~Truthy(Get(ps[pidx], STR_schema))
                THEN /\ pidx' = pidx + 1
                     /\ UNCHANGED <<pc, ctl, arg, val>>
                ELSE /\ pc' = "bodySchema"
                     /\ resolve(Get(ps[pidx], STR_schema))
                     /\ pidx' = pidx
           ELSE IF /\ pidx = 1
                   /\ Truthy(requestBody)
                   /\ IsObjectType(requestBody)
                   /\ jsonSchema(requestBody) # Undefined
                THEN /\ pc' = "bodySchema"
                     /\ resolve(jsonSchema(requestBody))
                     /\ pidx' = pidx
                ELSE /\ pc' = "responses"
                     /\ pidx' = 1
                     /\ UNCHANGED <<ctl, arg, val>>
    /\ UNCHANGED <<outside, includeResources, pathPrefix, baseUrlOverride,
                   baseUrl, returned,
                   specData, specVersion, outcome, tools, opIdx, toolName,
                   parameters, memo, frames>>

\* The body parameters of the resolved schema are merged into parameters.
BodyDone ==
    /\ pc = "bodySchema"
    /\ ctl = "ret"
    /\ frames = <<>>
    /\ LET bodyParams == bodyParameters(val) IN
        IF bodyParams.throws
        THEN raise("TypeError") /\ UNCHANGED <<pidx, parameters>>
        ELSE /\ parameters' = Assign(parameters, bodyParams.e)
             /\ pidx' = pidx + 1
             /\ pc' = "body"
             /\ outcome' = outcome
    /\ resolverIdle
    /\ UNCHANGED <<outside, includeResources, pathPrefix, baseUrlOverride,
                   baseUrl, returned,
                   specData, specVersion, tools, opIdx, toolName, memo, frames>>

\* The tool createToolFromOperation returns.
tool(responseSchema_) ==
    LET operation == entry.operation IN
    [name |-> toolName,
     description |-> OrElse(Get(operation, STR_summary),
                        OrElse(Get(operation, STR_description), JStr(STR_NoDescription))),
     method |-> toUpperCase(entry.method),
     path |-> entry.path,
     parameters |-> parameters,
     response_schema |-> responseSchema_,
     operation_id |-> Get(operation, STR_operationId),
     tags |-> OrElse(Get(operation, STR_tags), JArr(<<>>))]

\* Variant: a tool is dropped when a tool of its name is in the list.
pushUnlessNamed(ts, t) ==
    IF \E i \in 1..Len(ts) : ts[i].name = t.name THEN ts ELSE Append(ts, t)

\* tools.push(tool)
push(ts, t) == Append(ts, t)

\* parseResponses, up to its call of resolveRefs; without a schema to
\* resolve the tool is pushed with no response schema.
Responses ==
    /\ pc = "responses"
    /\ LET schema == responseSchema(OrElse(Get(entry.operation, STR_responses), JObj(<<>>)),
                                    specVersion)
       IN  IF schema = Undefined
           THEN /\ tools' = push(tools, tool(Undefined))
                /\ opIdx' = opIdx + 1
                /\ pc' = "paths"
                /\ UNCHANGED <<ctl, arg, val>>
           ELSE /\ pc' = "responseSchema"
                /\ resolve(schema)
                /\ UNCHANGED <<tools, opIdx>>
    /\ UNCHANGED <<outside, includeResources, pathPrefix, baseUrlOverride,
                   baseUrl, returned,
                   specData, specVersion, outcome, pidx, toolName, parameters,
                   memo, frames>>

\* The resolved response schema completes the tool, which is pushed.
ResponseDone ==
    /\ pc = "responseSchema"
    /\ ctl = "ret"
    /\ frames = <<>>
    /\ tools' = push(tools, tool(val))
    /\ opIdx' = opIdx + 1
    /\ pc' = "paths"
    /\ resolverIdle
    /\ UNCHANGED <<outside, includeResources, pathPrefix, baseUrlOverride,
                   baseUrl, returned,
                   specData, specVersion, outcome, pidx, toolName, parameters,
                   memo, frames>>

\* An error raised inside resolveRefs and caught by no $ref call leaves
\* parse.
Raise ==
    /\ ctl = "throw"
    /\ frames = <<>>
    /\ raise("TypeError")
    /\ resolverIdle
    /\ UNCHANGED <<outside, includeResources, pathPrefix, baseUrlOverride,
                   baseUrl, returned,
                   specData, specVersion, tools, opIdx, pidx, toolName,
                   parameters, memo, frames>>

\* pathLower.replace(/\./g, '/')
dotsToSlashes(s) == [i \in 1..Len(s) |-> IF s[i] = "." THEN "/" ELSE s[i]]

\* The path of a tool with the prefix stripped when the path starts with
\* it, letter case aside.
stripPrefix(path, prefix) ==
    IF Truthy(prefix) /\ StartsWith(toLowerCase(path), toLowerCase(prefix.s))
    THEN SubSeq(path, Len(prefix.s) + 1, Len(path))
    ELSE path

\* Variant: parameter placeholders count as segments.
segmentsWithPlaceholders(path) ==
    SelectSeq(Split(dotsToSlashes(toLowerCase(path)), "/"), LAMBDA seg : seg # <<>>)

\* pathNormalized.split('/').filter(seg => seg && !seg.startsWith('{'))
segments(path) ==
    SelectSeq(Split(dotsToSlashes(toLowerCase(path)), "/"),
              LAMBDA seg : seg # <<>> /\ seg[1] # "{")

filterToolsByResources(tools_, include, prefix) ==
    IF ~Truthy(include) \/ include.a = <<>> THEN tools_
    ELSE LET normalizedResources ==
                 [i \in 1..Len(include.a) |-> toLowerCase(include.a[i].s)]
         IN  SelectSeq(tools_, LAMBDA t :
                 LET segs == segments(stripPrefix(t.path, prefix)) IN
                 /\ segs # <<>>
                 /\ \E i \in 1..Len(normalizedResources) :
                        normalizedResources[i] = segs[1])

\* The loops are over: parseOpenApiSpec returns, and parse returns the
\* specification, with its tools filtered when includeResources is given.
Finish ==
    /\ pc = "paths"
    /\ opIdx > Len(pathEntries(specData))
    /\ pc' = "done"
    /\ outcome' = "ok"
    /\ returned' = IF Truthy(includeResources)
                   THEN filterToolsByResources(tools, includeResources, pathPrefix)
                   ELSE tools
    /\ UNCHANGED <<outside, includeResources, pathPrefix, baseUrlOverride, baseUrl,
                   specData, specVersion, tools, opIdx, pidx, toolName,
                   parameters, memo, frames, ctl, arg, val>>

(***************************************************************************)
(* Documents parse is called on                                            *)
(***************************************************************************)
Ref(p) == JObj(<< <<STR_ref, JStr(p)>> >>)
TypeOnly(t) == JObj(<< <<STR_type, JStr(t)>> >>)
AnyOf(items) == JObj(<< <<STR_anyOf, JArr(items)>> >>)
ArrayOf(items) == JObj(<< <<STR_type, JStr(<<"a", "r", "r", "a", "y">>)>>, <<<<"i", "t", "e", "m", "s">>, items>> >>)

PtrA == <<"#", "/", "d", "e", "f", "i", "n", "i", "t", "i", "o", "n", "s", "/", "A">>
PtrB == <<"#", "/", "d", "e", "f", "i", "n", "i", "t", "i", "o", "n", "s", "/", "B">>
PtrMissing == <<"#", "/", "d", "e", "f", "i", "n", "i", "t", "i", "o", "n", "s", "/", "M", "i", "s", "s", "i", "n", "g">>

\* { type: 'object', properties: { n: { type: 'string' } }, required: req }
Named(req) ==
    JObj(<< <<STR_type, JStr(STR_object)>>,
            <<STR_properties, JObj(<< <<<<"n">>, TypeOnly(STR_string)>> >>)>>,
            <<STR_required, req>> >>)

\* Schemas whose one reference goes to r.
SchemasTo(r) ==
    { Ref(r),
      JObj(<< <<STR_type, JStr(STR_object)>>,
              <<STR_properties, JObj(<< <<<<"x">>, Ref(r)>> >>)>> >>),
      AnyOf(<<Ref(r), TypeOnly(STR_string)>>),
      ArrayOf(Ref(r)),
      JObj(<< <<STR_type, JStr(STR_object)>>, <<STR_oneOf, JArr(<<Ref(r)>>)>> >>) }

\* Schemas without a reference to resolve: a plain one, a boolean schema, a
\* property that is named anyOf, a $ref that is no string, an object with
\* a required property, a schema under two composition keywords.
PlainSchemas ==
    { TypeOnly(STR_string),
      JObj(<< <<STR_type, JStr(STR_string)>>,
              <<STR_allOf, JArr(<<TypeOnly(STR_string)>>)>>,
              <<STR_oneOf, JArr(<<TypeOnly(STR_string), JBool(TRUE)>>)>> >>),
      JBool(TRUE),
      JObj(<< <<STR_properties, JObj(<< <<STR_anyOf, TypeOnly(STR_string)>> >>)>> >>),
      JObj(<< <<STR_ref, JNum(5)>> >>),
      Named(JArr(<<JStr(<<"n">>)>>)) }

SchemasOfA == SchemasTo(PtrA) \cup SchemasTo(PtrB) \cup SchemasTo(PtrMissing) \cup PlainSchemas

SchemasOfB ==
    { Ref(PtrA), Ref(PtrB), ArrayOf(Ref(PtrA)), AnyOf(<<Ref(PtrA), TypeOnly(STR_string)>>),
      JObj(<< <<STR_type, JStr(STR_object)>>,
              <<STR_properties, JObj(<< <<<<"x">>, Ref(PtrA)>> >>)>> >>),
      TypeOnly(STR_string) }

\* The schemas an operation uses: of its query parameter, of its 200
\* response and of its request body.
Usages ==
    { <<Ref(PtrA), Ref(PtrB), Ref(PtrA)>>,
      <<AnyOf(<<Ref(PtrA), Ref(PtrB)>>), Ref(PtrA), Ref(PtrB)>>,
      <<Ref(PtrB), ArrayOf(Ref(PtrA)), Ref(PtrMissing)>> }

Swagger(v) == << <<STR_swagger, v>> >>
OpenApi(v) == << <<STR_openapi, v>> >>

\* A response or request body with the schema under content.
JsonContent(schema) ==
    JObj(<< <<STR_content,
              JObj(<< <<STR_appJson, JObj(<< <<STR_schema, schema>> >>)>> >>)>> >>)

QueryParam(name, schema) ==
    JObj(<< <<STR_name, JStr(name)>>, <<STR_in, JStr(STR_query)>>, <<STR_schema, schema>> >>)

BodyParam(schema) ==
    JObj(<< <<STR_name, JStr(STR_body)>>, <<STR_in, JStr(STR_body)>>, <<STR_schema, schema>> >>)

\* GET and POST /users using the schemas u, in the layout of the version.
UsersPaths(isSwagger, u) ==
    JObj(<< <<<<"/", "u", "s", "e", "r", "s">>, JObj(<<
        <<<<"g", "e", "t">>, JObj(<<
            <<STR_parameters, JArr(<<QueryParam(<<"q">>, u[1])>>)>>,
            <<STR_responses, JObj(<< <<<<"2", "0", "0">>,
                IF isSwagger THEN JObj(<< <<STR_schema, u[2]>> >>) ELSE JsonContent(u[2])>> >>)>> >>)>>,
        <<<<"p", "o", "s", "t">>, IF isSwagger
            THEN JObj(<< <<STR_parameters, JArr(<<BodyParam(u[3])>>)>> >>)
            ELSE JObj(<< <<STR_requestBody, JsonContent(u[3])>> >>)>> >>)>> >>)

Document(versionFields, paths, a, b) ==
    JObj(versionFields
         \o << <<STR_paths, paths>>,
               <<<<"d", "e", "f", "i", "n", "i", "t", "i", "o", "n", "s">>, JObj(<< <<<<"A">>, a>>, <<<<"B">>, b>> >>)>> >>)

\* Documents over every pair of definitions and every usage.
ReferenceDocuments ==
    { Document(OpenApi(JStr(<<"3", ".", "0", ".", "0">>)), UsersPaths(FALSE, u), a, b) :
        <<a, b, u>> \in SchemasOfA \X SchemasOfB \X Usages }
    \cup
    { Document(Swagger(JStr(<<"2", ".", "0">>)), UsersPaths(TRUE, u), a, TypeOnly(STR_string)) :
        <<a, u>> \in (SchemasTo(PtrA) \cup PlainSchemas) \X Usages }

\* The version fields of a document.
VersionFields ==
    { Swagger(JStr(<<"2", ".", "0">>)), Swagger(JStr(<<"2", ".">>)), Swagger(JStr(<<"2">>)),
      Swagger(JStr(<<"3", ".", "0">>)), Swagger(JStr(<<"1", ".", "2">>)), Swagger(JNum(2)),
      Swagger(JStr(<<"1", ".", "2">>)) \o OpenApi(JStr(<<"3", ".", "0", ".", "0">>)),
      OpenApi(JStr(<<"3", ".", "0", ".", "0">>)) \o Swagger(JStr(<<"2", ".", "0">>)),
      OpenApi(JStr(<<"3", ".", "0", ".", "0">>)), OpenApi(JStr(<<"3", ".", "0">>)), OpenApi(JStr(<<"3", ".", "1", ".", "2">>)),
      OpenApi(JStr(<<"3", ".", "2", ".", "0">>)), OpenApi(JStr(<<"3", ".", "3", ".", "0">>)), OpenApi(JStr(<<"4", ".", "0", ".", "0">>)),
      OpenApi(JStr(<<"3">>)), OpenApi(JStr(<<"1", "3", ".", "0">>)), OpenApi(JNum(3)), OpenApi(JNull),
      <<>> }

VersionDocuments ==
    { Document(vf, UsersPaths(FALSE, <<TypeOnly(STR_string), TypeOnly(STR_string),
                                        Named(JArr(<<>>))>>),
               TypeOnly(STR_string), TypeOnly(STR_string)) : vf \in VersionFields }

\* Path items with keys of every kind, and operations, parameter lists,
\* parameters and schemas of the wrong shape.
OperationId(id) == JObj(<< <<STR_operationId, id>> >>)
WithParameters(ps) == JObj(<< <<STR_parameters, ps>> >>)

MixedPaths ==
    JObj(<< <<<<"/", "u", "s", "e", "r", "s">>, JObj(<<
                <<<<"g", "e", "t">>, OperationId(JStr(<<"l", "i", "s", "t", "U", "s", "e", "r", "s">>))>>,
                <<<<"h", "e", "a", "d">>, JObj(<<>>)>>,
                <<<<"P", "O", "S", "T">>, JObj(<<>>)>>,
                <<<<"o", "p", "t", "i", "o", "n", "s">>, JObj(<<>>)>>,
                <<STR_parameters, JArr(<<>>)>>,
                <<<<"p", "u", "t">>, JArr(<<>>)>>,
                <<<<"d", "e", "l", "e", "t", "e">>, JStr(<<"x">>)>>,
                <<<<"p", "a", "t", "c", "h">>, JNull>> >>)>>,
            <<<<"/", "b", "a", "d">>, JStr(<<"x">>)>>,
            <<<<"/", "u", "s", "e", "r", "s", "/", "{", "i", "d", "}">>, JObj(<<
                <<<<"G", "e", "t">>, OperationId(JStr(<<"1", "2", "3">>))>>,
                <<<<"t", "r", "a", "c", "e">>, JObj(<<>>)>>,
                <<<<"D", "e", "l", "e", "t", "e">>, WithParameters(JStr(<<"a", "b">>))>> >>)>> >>)

ResponsesPaths ==
    JObj(<< <<<<"/", "a", ".", "b">>, JObj(<< <<<<"g", "e", "t">>, JObj(<< <<STR_responses, JObj(<<
                <<<<"d", "e", "f", "a", "u", "l", "t">>, JsonContent(Ref(PtrA))>>,
                <<<<"4", "0", "4">>, JsonContent(Ref(PtrA))>>,
                <<<<"2", "0", "1">>, JObj(<<>>)>>,
                <<<<"2", "0", "0">>, JsonContent(Ref(PtrB))>> >>)>> >>)>> >>)>> >>)

OneOperation(method, operation) ==
    JObj(<< <<<<"/", "u", "s", "e", "r", "s">>, JObj(<< <<method, operation>>,
                                <<<<"d", "e", "l", "e", "t", "e">>, OperationId(JStr(<<"l", "i", "s", "t", "U", "s", "e", "r", "s">>))>> >>)>> >>)

ShapePaths ==
    { MixedPaths, ResponsesPaths, JStr(<<"x">>), Undefined,
      OneOperation(<<"g", "e", "t">>, WithParameters(JObj(<<>>))),
      OneOperation(<<"g", "e", "t">>, WithParameters(JArr(<<
          JStr(<<"x">>), JNull, JObj(<< <<STR_in, JStr(STR_query)>> >>),
          JObj(<< <<STR_name, JStr(<<"q">>)>>, <<STR_required, JBool(TRUE)>> >>),
          QueryParam(<<"r">>, JObj(<< <<STR_type, JStr(<<"i", "n", "t", "e", "g", "e", "r">>)>>,
                                   <<STR_format, JStr(<<"i", "n", "t", "3", "2">>)>> >>)) >>))),
      OneOperation(<<"g", "e", "t">>, WithParameters(JArr(<<QueryParam(<<"q">>, JStr(<<"x">>))>>))),
      OneOperation(<<"g", "e", "t">>, WithParameters(JArr(<<QueryParam(<<"q">>, JObj(<< <<STR_anyOf, JNum(5)>> >>))>>))),
      OneOperation(<<"g", "e", "t">>, OperationId(JNum(5))),
      OneOperation(<<"p", "u", "t">>, JObj(<< <<STR_requestBody, JsonContent(Named(JBool(TRUE)))>> >>)),
      OneOperation(<<"p", "a", "t", "c", "h">>, JObj(<< <<STR_requestBody, JsonContent(Named(JStr(<<"n", "a", "m", "e">>)))>> >>)) }

ShapeDocuments ==
    { Document(OpenApi(JStr(<<"3", ".", "0", ".", "0">>)), p, TypeOnly(STR_string), Ref(PtrA)) : p \in ShapePaths }

\* Operations for the naming policy: without operationId, with one that
\* normalizes to a valid name, with one that does not, with an empty one,
\* and two whose operationIds normalize to the same name.
NamingPaths ==
    JObj(<< <<<<"/", "u", "s", "e", "r", "s">>, JObj(<< <<<<"g", "e", "t">>, JObj(<<>>)>>, <<<<"p", "o", "s", "t">>, JObj(<<>>)>> >>)>>,
            <<<<"/", "u", "s", "e", "r", "s", "/", "{", "i", "d", "}">>,
              JObj(<< <<<<"g", "e", "t">>, JObj(<<>>)>>,
                      <<<<"p", "u", "t">>, OperationId(JStr(<<"F", "e", "t", "c", "h", "A", "c", "c", "o", "u", "n", "t">>))>>,
                      <<<<"d", "e", "l", "e", "t", "e">>, OperationId(JStr(<<"1", "2", "3", "i", "n", "v", "a", "l", "i", "d">>))>>,
                      <<<<"p", "a", "t", "c", "h">>, OperationId(JStr(<<"_", "_", "_">>))>> >>)>>,
            <<<<"/", "a">>, JObj(<< <<<<"g", "e", "t">>, OperationId(JStr(<<"l", "i", "s", "t", "_", "u", "s", "e", "r", "s">>))>> >>)>>,
            <<<<"/", "b">>, JObj(<< <<<<"g", "e", "t">>, OperationId(JStr(<<"l", "i", "s", "t", "U", "s", "e", "r", "s">>))>>,
                             <<<<"p", "o", "s", "t">>, OperationId(JStr(<<>>))>> >>)>> >>)

NamingDocuments ==
    { Document(vf, NamingPaths, TypeOnly(STR_string), TypeOnly(STR_string)) :
        vf \in {OpenApi(JStr(<<"3", ".", "0", ".", "0">>)), Swagger(JStr(<<"2", ".", "0">>))} }

\* { name, in: location }, and a parameter without in.
Param(name, location) == JObj(<< <<STR_name, JStr(name)>>, <<STR_in, JStr(location)>> >>)
NameOnly(name) == JObj(<< <<STR_name, JStr(name)>> >>)

\* An object schema with a required property, an optional one with an
\* enum, and two properties whose schemas are no objects.
BodySchema ==
    JObj(<< <<STR_type, JStr(STR_object)>>,
            <<STR_properties, JObj(<<
                <<<<"n", "a", "m", "e">>, TypeOnly(STR_string)>>,
                <<<<"e", "m", "a", "i", "l">>, JObj(<< <<STR_type, JStr(STR_string)>>,
                                    <<STR_enum, JArr(<<JStr(<<"a">>)>>)>> >>)>>,
                <<<<"f", "l", "a", "g">>, JBool(TRUE)>>,
                <<<<"n", "o", "t", "e">>, JStr(<<"x">>)>> >>)>>,
            <<STR_required, JArr(<<JStr(<<"n", "a", "m", "e">>)>>)>> >>)

\* The request body of an operation in the layout of the version: beside
\* the parameters ps.
WithBody(isSwagger, ps, schema) ==
    IF isSwagger
    THEN JObj(<< <<STR_parameters,
                   JArr(ps \o <<JObj(<< <<STR_name, JStr(<<"p", "a", "y", "l", "o", "a", "d">>)>>,
                                        <<STR_in, JStr(STR_body)>>,
                                        <<STR_schema, schema>> >>)>>)>> >>)
    ELSE JObj(<< <<STR_parameters, JArr(ps)>>, <<STR_requestBody, JsonContent(schema)>> >>)

\* Operations with parameters in every location, one of them named like
\* a property of the body, and a request body under every method.
ParameterPaths(isSwagger) ==
    JObj(<< <<<<"/", "u", "s", "e", "r", "s">>, JObj(<<
        <<<<"p", "o", "s", "t">>, WithBody(isSwagger,
                            <<Param(<<"i", "d">>, <<"p", "a", "t", "h">>),
                              Param(<<"s", "e", "s", "s", "i", "o", "n">>, IF isSwagger THEN <<"f", "o", "r", "m", "D", "a", "t", "a">> ELSE <<"c", "o", "o", "k", "i", "e">>),
                              NameOnly(<<"q">>),
                              Param(<<"n", "a", "m", "e">>, <<"h", "e", "a", "d", "e", "r">>)>>,
                            Ref(PtrA))>>,
        <<<<"g", "e", "t">>, WithBody(isSwagger, <<Param(<<"n", "a", "m", "e">>, <<"h", "e", "a", "d", "e", "r">>)>>, Ref(PtrA))>>,
        <<<<"d", "e", "l", "e", "t", "e">>, WithBody(isSwagger, <<>>, BodySchema)>>,
        <<<<"p", "u", "t">>, WithBody(isSwagger, <<Param(<<"e", "m", "a", "i", "l">>, <<"q", "u", "e", "r", "y">>)>>, BodySchema)>>,
        <<<<"p", "a", "t", "c", "h">>, WithBody(isSwagger, <<NameOnly(<<"q">>)>>, TypeOnly(STR_string))>> >>)>> >>)

ParameterDocuments ==
    { Document(OpenApi(JStr(<<"3", ".", "0", ".", "0">>)), ParameterPaths(FALSE), BodySchema, TypeOnly(STR_string)),
      Document(Swagger(JStr(<<"2", ".", "0">>)), ParameterPaths(TRUE), BodySchema, TypeOnly(STR_string)) }

\* A response with the schema in the layout of the version.
Response(isSwagger, schema) ==
    IF isSwagger THEN JObj(<< <<STR_schema, schema>> >>) ELSE JsonContent(schema)

\* Operations whose responses have: 201 inserted before 200; a 200 without
\* a schema before a 201 with one; a 2XX range key after an error key; no
\* success key; a success key whose value is no object.
SuccessPaths(isSwagger) ==
    JObj(<< <<<<"/", "u", "s", "e", "r", "s">>, JObj(<<
        <<<<"g", "e", "t">>, JObj(<< <<STR_responses, JObj(<<
            <<<<"2", "0", "1">>, Response(isSwagger, Ref(PtrA))>>,
            <<<<"2", "0", "0">>, Response(isSwagger, Ref(PtrB))>> >>)>> >>)>>,
        <<<<"p", "o", "s", "t">>, JObj(<< <<STR_responses, JObj(<<
            <<<<"2", "0", "0">>, JObj(<< <<STR_description, JStr(<<"o", "k">>)>> >>)>>,
            <<<<"2", "0", "1">>, Response(isSwagger, Ref(PtrA))>> >>)>> >>)>>,
        <<<<"p", "u", "t">>, JObj(<< <<STR_responses, JObj(<<
            <<<<"4", "0", "4">>, Response(isSwagger, Ref(PtrB))>>,
            <<<<"2", "X", "X">>, Response(isSwagger, Ref(PtrA))>> >>)>> >>)>>,
        <<<<"d", "e", "l", "e", "t", "e">>, JObj(<< <<STR_responses, JObj(<<
            <<<<"d", "e", "f", "a", "u", "l", "t">>, Response(isSwagger, Ref(PtrA))>>,
            <<<<"4", "0", "4">>, Response(isSwagger, Ref(PtrB))>> >>)>> >>)>>,
        <<<<"p", "a", "t", "c", "h">>, JObj(<< <<STR_responses, JObj(<<
            <<<<"2", "0", "4">>, JNull>> >>)>> >>)>> >>)>> >>)

SuccessDocuments ==
    { Document(OpenApi(JStr(<<"3", ".", "0", ".", "0">>)), SuccessPaths(FALSE), TypeOnly(STR_string), Named(JArr(<<>>))),
      Document(Swagger(JStr(<<"2", ".", "0">>)), SuccessPaths(TRUE), TypeOnly(STR_string), Named(JArr(<<>>))) }

Documents ==
    ReferenceDocuments \cup VersionDocuments \cup ShapeDocuments \cup NamingDocuments
    \cup ParameterDocuments \cup SuccessDocuments

\* Paths for the resource filter: a GET operation under each.
FilterPaths ==
    JObj([i \in 1..8 |->
        << << <<"/", "p", "a", "y", "m", "e", "n", "t", "s">>, <<"/", "P", "a", "y", "m", "e", "n", "t", "s", "/", "{", "i", "d", "}">>, <<"/", "v", "1", "/", "p", "a", "y", "m", "e", "n", "t", "s">>, <<"/", "v", "2", "/", "p", "a", "y", "m", "e", "n", "t", "s">>,
              <<"/", "u", "s", "e", "r", "/", "r", "e", "p", "o", "s">>, <<"/", "r", "e", "p", "o", "s", ".", "g", "e", "t">>, <<"/", "{", "t", "e", "n", "a", "n", "t", "}", "/", "r", "e", "p", "o", "s">>, <<"/", "v", "1", "p", "a", "y", "m", "e", "n", "t", "s">> >>[i],
           JObj(<< <<<<"g", "e", "t">>, JObj(<<>>)>> >>) >>])

FilterDocuments ==
    { Document(OpenApi(JStr(<<"3", ".", "0", ".", "0">>)), FilterPaths, TypeOnly(STR_string), TypeOnly(STR_string)) }

\* The includeResources and pathPrefix handed to parse with them.
ResourceLists ==
    { JArr(<<>>), JArr(<<JStr(<<"p", "a", "y", "m", "e", "n", "t", "s">>)>>), JArr(<<JStr(<<"p", "a", "y", "m", "e", "n", "t">>)>>),
      JArr(<<JStr(<<"P", "A", "Y", "M", "E", "N", "T", "S">>)>>), JArr(<<JStr(<<"r", "e", "p", "o", "s">>)>>),
      JArr(<<JStr(<<"u", "s", "e", "r">>), JStr(<<"R", "e", "p", "o", "s">>)>>), JArr(<<JStr(<<"g", "e", "t">>)>>),
      JArr(<<JStr(<<"v", "1">>)>>), JArr(<<JStr(<<"r", "e", "p", "o", "s", ".", "g", "e", "t">>)>>), JArr(<<JStr(<<"{", "t", "e", "n", "a", "n", "t", "}">>)>>) }

PathPrefixes == { Undefined, JStr(<<>>), JStr(<<"/", "v", "1">>), JStr(<<"/", "V", "1", "/">>), JStr(<<"/", "u", "s", "e", "r">>) }

\* Documents without paths for the base URL: Swagger 2 with host, basePath
\* and schemes present or absent, OpenAPI 3.x with servers of every length,
\* and some of a wrong shape.
BaseUrlFields ==
    { Swagger(JStr(<<"2", ".", "0">>)) \o << <<<<"h", "o", "s", "t">>, JStr(<<"a", "p", "i", ".", "e", "x", "a", "m", "p", "l", "e", ".", "c", "o", "m">>)>>,
                                   <<<<"b", "a", "s", "e", "P", "a", "t", "h">>, JStr(<<"/", "v", "1">>)>>,
                                   <<<<"s", "c", "h", "e", "m", "e", "s">>, JArr(<<JStr(<<"h", "t", "t", "p", "s">>)>>)>> >>,
      Swagger(JStr(<<"2", ".", "0">>)) \o << <<<<"h", "o", "s", "t">>, JStr(<<"h", ".", "i", "o">>)>>,
                                   <<<<"s", "c", "h", "e", "m", "e", "s">>, JArr(<<JStr(<<"h", "t", "t", "p">>), JStr(<<"h", "t", "t", "p", "s">>)>>)>> >>,
      Swagger(JStr(<<"2", ".", "0">>)) \o << <<<<"h", "o", "s", "t">>, JStr(<<"h", ".", "i", "o">>)>>, <<<<"b", "a", "s", "e", "P", "a", "t", "h">>, JStr(<<"/", "v", "1">>)>> >>,
      Swagger(JStr(<<"2", ".", "0">>)) \o << <<<<"h", "o", "s", "t">>, JStr(<<"h", ".", "i", "o">>)>>, <<<<"s", "c", "h", "e", "m", "e", "s">>, JArr(<<>>)>> >>,
      Swagger(JStr(<<"2", ".", "0">>)) \o << <<<<"b", "a", "s", "e", "P", "a", "t", "h">>, JStr(<<"/", "v", "1">>)>>,
                                   <<<<"s", "c", "h", "e", "m", "e", "s">>, JArr(<<JStr(<<"h", "t", "t", "p">>)>>)>> >>,
      Swagger(JStr(<<"2", ".", "0">>)) \o << <<<<"h", "o", "s", "t">>, JStr(<<"h", ".", "i", "o">>)>>, <<<<"s", "c", "h", "e", "m", "e", "s">>, JStr(<<"h", "t", "t", "p">>)>> >>,
      Swagger(JStr(<<"2", ".", "0">>)) \o << <<<<"h", "o", "s", "t">>, JNum(7)>>, <<<<"s", "e", "r", "v", "e", "r", "s">>, JArr(<<JNull>>)>> >>,
      OpenApi(JStr(<<"3", ".", "0", ".", "0">>)) \o << <<<<"s", "e", "r", "v", "e", "r", "s">>, JArr(<<
          JObj(<< <<<<"u", "r", "l">>, JStr(<<"h", "t", "t", "p", "s", ":", "/", "/", "a", ".", "i", "o", "/", "v", "2">>)>> >>),
          JObj(<< <<<<"u", "r", "l">>, JStr(<<"h", "t", "t", "p", "s", ":", "/", "/", "b", ".", "i", "o">>)>> >>) >>)>> >>,
      OpenApi(JStr(<<"3", ".", "0", ".", "0">>)) \o << <<<<"s", "e", "r", "v", "e", "r", "s">>, JArr(<<>>)>> >>,
      OpenApi(JStr(<<"3", ".", "0", ".", "0">>)) \o << <<<<"h", "o", "s", "t">>, JStr(<<"h", ".", "i", "o">>)>> >>,
      OpenApi(JStr(<<"3", ".", "0", ".", "0">>)) \o << <<<<"s", "e", "r", "v", "e", "r", "s">>, JArr(<<JObj(<<>>)>>)>> >>,
      OpenApi(JStr(<<"3", ".", "0", ".", "0">>)) \o << <<<<"s", "e", "r", "v", "e", "r", "s">>, JArr(<<JNull>>)>> >>,
      OpenApi(JStr(<<"3", ".", "0", ".", "0">>)) \o << <<<<"s", "e", "r", "v", "e", "r", "s">>, JStr(<<"h", "t", "t", "p", "s", ":", "/", "/", "a", ".", "i", "o">>)>> >> }

BaseUrlDocuments == {JObj(fields) : fields \in BaseUrlFields}

\* The baseUrlOverride handed to parse with them.
Overrides == {Undefined, JStr(<<>>), JStr(<<"h", "t", "t", "p", "s", ":", "/", "/", "c", "u", "s", "t", "o", "m", ".", "a", "p", "i", ".", "c", "o", "m">>)}

\* The calls of parse: a document alone, a document of FilterDocuments
\* with a resource list and a prefix, or a document of BaseUrlDocuments
\* with a base URL override.
Calls ==
    (Documents \X {Undefined} \X {Undefined} \X {Undefined})
    \cup (FilterDocuments \X ResourceLists \X PathPrefixes \X {Undefined})
    \cup (BaseUrlDocuments \X {Undefined} \X {Undefined} \X Overrides)

\* null, where a parser is expected.
NullParser == [format |-> "null", n |-> 0]

\* findParser has not been called.
NotCalled == [specData |-> Undefined, parser |-> NullParser, registered |-> 0]

\* No name helper has been called and no registry constructed.
NameIdle == rawName = <<>> /\ normalized = Undefined

RegistryIdle == parsers = <<>> /\ found = NotCalled

\* What parse was given and what came of it, for no call.
NoCall == [call |-> <<>>, result |-> <<>>]

\* The call running is the first on a parser just constructed.
FirstCall == calls = 1 /\ firstCall = NoCall

\* No parse call has been made.
HistoryIdle == calls = 0 /\ firstCall = NoCall

\* new Map()
EmptyCache == [k \in {} |-> Undefined]

\* No discoverApi call has been made, and what it returns for none.
NoRequest == [specPath |-> <<>>, baseUrl |-> Undefined, includeResources |-> Undefined,
              pathPrefix |-> Undefined]
NoSpec == [outcome |-> "none", base_url |-> Undefined, tools |-> <<>>, raw_spec |-> Undefined,
           served |-> "none"]

\* No OCPSchemaDiscovery has been constructed.
DiscoveryIdle ==
    /\ cache = EmptyCache
    /\ dpc = "idle"
    /\ request = NoRequest
    /\ discovered = NoSpec
    /\ parsedSpec = NoSpec
    /\ fetched = EmptyCache
    /\ discoveries = 0

\* No OCPHTTPClient has been constructed.
ClientIdle ==
    /\ autoUpdateContext = FALSE
    /\ clientBaseUrl = Undefined
    /\ history = <<>>
    /\ requests = <<>>

ElsewhereIdle == DiscoveryIdle /\ ClientIdle

OutsideIdle == NameIdle /\ RegistryIdle /\ FirstCall /\ ElsewhereIdle

(***************************************************************************)
(* Specification                                                           *)
(***************************************************************************)
Init ==
    /\ \E c \in Calls :
        /\ specData = c[1]
        /\ includeResources = c[2]
        /\ pathPrefix = c[3]
        /\ baseUrlOverride = c[4]
    /\ baseUrl = Undefined
    /\ returned = <<>>
    /\ OutsideIdle
    /\ specVersion = "unset"
    /\ pc = "parse"
    /\ outcome = "running"
    /\ tools = <<>>
    /\ opIdx = 1
    /\ pidx = 1
    /\ toolName = <<>>
    /\ parameters = JObj(<<>>)
    /\ memo = EmptyMemo
    /\ frames = <<>>
    /\ ctl = "idle"
    /\ arg = NoArg
    /\ val = Undefined

Next ==
    \/ Detect
    \/ Operation
    \/ Parameter
    \/ ParameterDone
    \/ RequestBody
    \/ BodyDone
    \/ Responses
    \/ ResponseDone
    \/ Enter
    \/ Return
    \/ Unwind
    \/ Raise
    \/ Finish

Spec == Init /\ [][Next]_vars

\* Some step of parse can be taken: parse has not returned or raised, and
\* the pending call, if it recurses, has room on the call stack.  This is
\* ENABLED <<Next>>_vars, state by state.
CanStep ==
    /\ pc # "done"
    /\ (ctl = "call" /\ enterCall(arg, memo).push # <<>>) => Len(frames) < MaxFrames

\* parse is synchronous and single-threaded: nothing but its own steps can
\* hold it up.  The fairness condition is WF_vars(Next), with its enabling
\* condition written out as CanStep.
FairSpec == Spec /\ ([]<>(~CanStep) \/ []<><<Next>>_vars)

(***************************************************************************)
(* Several calls of parse on one parser                                    *)
(***************************************************************************)
MaxCalls == 3

\* The call running, and what it has come to once it is over: the error
\* raised, or the base_url and the tools of the specification returned.
CurrentCall == <<specData, includeResources, pathPrefix, baseUrlOverride>>

Result ==
    IF outcome = "ok" THEN [outcome |-> "ok", base_url |-> baseUrl, tools |-> returned]
    ELSE [outcome |-> outcome, base_url |-> Undefined, tools |-> <<>>]

\* The documents of the calls: two with the same pointers and different
\* definitions under them, in the two layouts; one whose definition raises
\* inside a reference; one whose parameter schema raises; one without
\* version field; one with the first document's pointers and other schemas
\* under them; one with a host, parsed with an override.
SeveralCalls ==
    { <<Document(OpenApi(JStr(<<"3", ".", "0", ".", "0">>)), UsersPaths(FALSE, <<Ref(PtrA), Ref(PtrB), Ref(PtrA)>>),
                 JObj(<< <<STR_type, JStr(STR_object)>>,
                         <<STR_properties, JObj(<< <<<<"x">>, Ref(PtrA)>> >>)>> >>),
                 Ref(PtrA)),
        Undefined, Undefined, Undefined>>,
      <<Document(Swagger(JStr(<<"2", ".", "0">>)), UsersPaths(TRUE, <<Ref(PtrA), Ref(PtrB), Ref(PtrA)>>),
                 Named(JArr(<<JStr(<<"n">>)>>)), TypeOnly(STR_string)),
        Undefined, Undefined, Undefined>>,
      <<Document(OpenApi(JStr(<<"3", ".", "0", ".", "0">>)), UsersPaths(FALSE, <<Ref(PtrA), Ref(PtrB), Ref(PtrA)>>),
                 JObj(<< <<STR_properties, JObj(<< <<STR_anyOf, TypeOnly(STR_string)>> >>)>> >>),
                 TypeOnly(STR_string)),
        Undefined, Undefined, Undefined>>,
      <<Document(OpenApi(JStr(<<"3", ".", "0", ".", "0">>)),
                 OneOperation(<<"g", "e", "t">>, WithParameters(JArr(<<
                     QueryParam(<<"q">>, JObj(<< <<STR_anyOf, JNum(5)>> >>))>>))),
                 TypeOnly(STR_string), Ref(PtrA)),
        Undefined, Undefined, Undefined>>,
      <<Document(<<>>, UsersPaths(FALSE, <<Ref(PtrA), Ref(PtrB), Ref(PtrA)>>),
                 TypeOnly(STR_string), TypeOnly(STR_string)),
        Undefined, Undefined, Undefined>>,
      <<Document(OpenApi(JStr(<<"3", ".", "0", ".", "0">>)), UsersPaths(FALSE, <<Ref(PtrA), Ref(PtrB), Ref(PtrA)>>),
                 TypeOnly(STR_string), TypeOnly(STR_string)),
        Undefined, Undefined, Undefined>>,
      <<JObj(Swagger(JStr(<<"2", ".", "0">>)) \o << <<<<"h", "o", "s", "t">>, JStr(<<"h", ".", "i", "o">>)>> >>),
        Undefined, Undefined, JStr(<<"h", "t", "t", "p", "s", ":", "/", "/", "c", "u", "s", "t", "o", "m", ".", "a", "p", "i", ".", "c", "o", "m">>)>> }

\* parse is entered with the call c.
Entered(c) ==
    /\ specData = c[1]
    /\ includeResources = c[2]
    /\ pathPrefix = c[3]
    /\ baseUrlOverride = c[4]
    /\ baseUrl = Undefined
    /\ returned = <<>>
    /\ pc = "parse"
    /\ outcome = "running"
    /\ tools = <<>>
    /\ opIdx = 1
    /\ pidx = 1
    /\ toolName = <<>>
    /\ parameters = JObj(<<>>)
    /\ frames = <<>>
    /\ ctl = "idle"
    /\ arg = NoArg
    /\ val = Undefined

SeveralInit ==
    /\ \E c \in SeveralCalls : Entered(c)
    /\ specVersion = "unset"
    /\ memo = EmptyMemo
    /\ OutsideIdle

\* parser.parse(...) on the parser a call has returned or raised on: the
\* locals of that call are gone, this.specVersion is what it left, and the
\* memo it used is shown as left behind until parseOpenApiSpec creates the
\* one of this call.
ParseAgain(c) ==
    /\ pc = "done"
    /\ calls < MaxCalls
    /\ calls' = calls + 1
    /\ firstCall' = IF calls = 1 THEN [call |-> CurrentCall, result |-> Result]
                    ELSE firstCall
    /\ specData' = c[1]
    /\ includeResources' = c[2]
    /\ pathPrefix' = c[3]
    /\ baseUrlOverride' = c[4]
    /\ baseUrl' = Undefined
    /\ returned' = <<>>
    /\ pc' = "parse"
    /\ outcome' = "running"
    /\ tools' = <<>>
    /\ opIdx' = 1
    /\ pidx' = 1
    /\ toolName' = <<>>
    /\ parameters' = JObj(<<>>)
    /\ frames' = <<>>
    /\ ctl' = "idle"
    /\ arg' = NoArg
    /\ val' = Undefined
    /\ UNCHANGED <<specVersion, memo, nameVars, registryVars, elsewhereVars>>

SeveralNext ==
    \/ Next
    \/ \E c \in SeveralCalls : ParseAgain(c)

SeveralSpec == SeveralInit /\ [][SeveralNext]_vars

(***************************************************************************)
(* A call of normalizeToolName on its own                                  *)
(***************************************************************************)
\* A lower-case letter, an upper-case letter, a digit, two separators and a
\* blank.
NameChars == {"a", "B", "1", "_", "/", " "}

\* Every string of up to MaxNameLen of them, and the names of the unit
\* tests.
NameInputs ==
    UNION {[1..n -> NameChars] : n \in 0..MaxNameLen}
    \cup { <<"F", "e", "t", "c", "h", "A", "c", "c", "o", "u", "n", "t">>, <<"a", "d", "m", "i", "n", "_", "a", "p", "p", "s", "_", "a", "p", "p", "r", "o", "v", "e">>, <<"v", "2", "0", "1", "0", "/", "A", "c", "c", "o", "u", "n", "t", "s">>, <<"S", "M", "S", "/", "s", "e", "n", "d">>,
           <<"r", "e", "p", "o", "s", "/", "d", "i", "s", "a", "b", "l", "e", "-", "v", "u", "l", "n", "e", "r", "a", "b", "i", "l", "i", "t", "y", "-", "a", "l", "e", "r", "t", "s">>, <<"m", "e", "t", "a", "/", "r", "o", "o", "t">>, <<"l", "i", "s", "t", ".", "u", "s", "e", "r", "s">>,
           <<"g", "e", "t", "H", "T", "T", "P", "R", "e", "s", "p", "o", "n", "s", "e">>, <<"a", "-", "-", "b", ".", ".", "c">>, <<"_", "_", "_">>, <<"1", "2", "3", "i", "n", "v", "a", "l", "i", "d">> }

\* parse is not running.
NoParse ==
    /\ specData = JObj(<<>>)
    /\ includeResources = Undefined
    /\ pathPrefix = Undefined
    /\ baseUrlOverride = Undefined
    /\ baseUrl = Undefined
    /\ specVersion = "unset"
    /\ pc = "idle"
    /\ outcome = "running"
    /\ tools = <<>>
    /\ returned = <<>>
    /\ opIdx = 1
    /\ pidx = 1
    /\ toolName = <<>>
    /\ parameters = JObj(<<>>)
    /\ memo = EmptyMemo
    /\ frames = <<>>
    /\ ctl = "idle"
    /\ arg = NoArg
    /\ val = Undefined

parseVars ==
    <<specData, specVersion, pc, outcome, tools, opIdx, pidx, toolName,
      parameters, memo, frames, ctl, arg, val, includeResources, pathPrefix,
      returned, baseUrlOverride, baseUrl>>

NameInit ==
    /\ rawName \in NameInputs
    /\ normalized = Undefined
    /\ RegistryIdle
    /\ HistoryIdle
    /\ ElsewhereIdle
    /\ NoParse

\* normalizeToolName(rawName) returns.
Normalize ==
    /\ normalized = Undefined
    /\ normalized' = JStr(normalizeToolName(rawName))
    /\ UNCHANGED <<rawName, registryVars, historyVars, elsewhereVars, parseVars>>

NameNext == Normalize

NameSpec == NameInit /\ [][NameNext]_vars

(***************************************************************************)
(* ParserRegistry (registry.ts): register and findParser on one registry   *)
(***************************************************************************)
MaxParsers == 3

\* The instance registerBuiltinParsers creates, and the instances handed to
\* register: an OpenAPIParser and three handlers of other formats, one that
\* accepts every document, one that accepts none and one that accepts the
\* documents with a someFormat field.
BuiltinParser == [format |-> "OpenAPI", n |-> 0]

ParserInstances ==
    {[format |-> f, n |-> 1] : f \in {"OpenAPI", "Everything", "Nothing", "SomeFormat"}}

\* OpenAPIParser.canParse(specData)
canParse(specData_) == In(specData_, STR_swagger) \/ In(specData_, STR_openapi)

\* parser.canParse(specData)
accepts(parser, specData_) ==
    CASE parser.format = "OpenAPI" -> canParse(specData_)
      [] parser.format = "Everything" -> TRUE
      [] parser.format = "Nothing" -> FALSE
      [] parser.format = "SomeFormat" -> In(specData_, <<"s", "o", "m", "e", "F", "o", "r", "m", "a", "t">>)

\* Variant: a parser is put in front of the registered ones.
registerFirst(ps, parser) == <<parser>> \o ps

\* this.parsers.push(parser)
register(ps, parser) == Append(ps, parser)

\* The loop of findParser.
RECURSIVE findParser(_, _)
findParser(ps, specData_) ==
    IF ps = <<>> THEN NullParser
    ELSE IF accepts(Head(ps), specData_) THEN Head(ps)
    ELSE findParser(Tail(ps), specData_)

\* The documents findParser is called on.
RegistryDocuments ==
    { JObj(OpenApi(JStr(<<"3", ".", "0", ".", "0">>)) \o << <<STR_paths, JObj(<<>>)>> >>),
      JObj(Swagger(JStr(<<"2", ".", "0">>)) \o << <<STR_paths, JObj(<<>>)>> >>),
      JObj(<< <<<<"s", "o", "m", "e", "F", "o", "r", "m", "a", "t">>, JStr(<<"1", ".", "0">>)>>, <<<<"d", "a", "t", "a">>, JObj(<<>>)>> >>),
      JObj(<< <<<<"s", "o", "m", "e", "F", "o", "r", "m", "a", "t">>, JStr(<<"1", ".", "0">>)>> >> \o Swagger(JStr(<<"2", ".", "0">>))),
      JObj(OpenApi(JNull)),
      JObj(<<>>) }

\* new ParserRegistry(autoRegisterBuiltin)
RegistryInit ==
    /\ \E autoRegisterBuiltin \in BOOLEAN :
        parsers = IF autoRegisterBuiltin THEN register(<<>>, BuiltinParser) ELSE <<>>
    /\ found = NotCalled
    /\ NameIdle
    /\ HistoryIdle
    /\ ElsewhereIdle
    /\ NoParse

\* registry.register(parser)
Register(parser) ==
    /\ Len(parsers) < MaxParsers
    /\ parsers' = register(parsers, parser)
    /\ UNCHANGED <<found, nameVars, historyVars, elsewhereVars, parseVars>>

\* registry.findParser(specData)
FindParser(specData_) ==
    /\ found' = [specData |-> specData_, parser |-> findParser(parsers, specData_),
                 registered |-> Len(parsers)]
    /\ UNCHANGED <<parsers, nameVars, historyVars, elsewhereVars, parseVars>>

RegistryNext ==
    \/ \E parser \in ParserInstances : Register(parser)
    \/ \E specData_ \in RegistryDocuments : FindParser(specData_)

RegistrySpec == RegistryInit /\ [][RegistryNext]_vars

(***************************************************************************)
(* OCPSchemaDiscovery.discoverApi (schema_discovery.ts) on the default     *)
(* registry: the calls are made one after the other; the parse calls a     *)
(* discoverApi call makes run as the steps of Next.  Of an OCPAPISpec the  *)
(* fields base_url, tools and raw_spec are kept.                           *)
(***************************************************************************)
MaxDiscoveries == 3

EndsWith(s, suffix) ==
    Len(suffix) <= Len(s) /\ SubSeq(s, Len(s) - Len(suffix) + 1, Len(s)) = suffix

IsUrl(specPath) == StartsWith(specPath, <<"h", "t", "t", "p", ":", "/", "/">>) \/ StartsWith(specPath, <<"h", "t", "t", "p", "s", ":", "/", "/">>)

\* process.cwd()
Cwd == <<"/", "s">>

\* The segments path.resolve keeps, left to right: '' and '.' are dropped,
\* '..' drops the segment before it.
RECURSIVE resolved(_, _)
resolved(segs, kept) ==
    IF segs = <<>> THEN kept
    ELSE IF Head(segs) \in {<<>>, <<".">>} THEN resolved(Tail(segs), kept)
    ELSE IF Head(segs) = <<".", ".">>
         THEN resolved(Tail(segs), IF kept = <<>> THEN kept ELSE SubSeq(kept, 1, Len(kept) - 1))
    ELSE resolved(Tail(segs), Append(kept, Head(segs)))

RECURSIVE joined(_)
joined(segs) == IF segs = <<>> THEN <<>> ELSE <<"/">> \o Head(segs) \o joined(Tail(segs))

\* path.resolve(p) of a POSIX path
pathResolve(p) ==
    LET absolute == IF StartsWith(p, <<"/">>) THEN p ELSE Cwd \o <<"/">> \o p
        kept == resolved(Split(absolute, "/"), <<>>)
    IN  IF kept = <<>> THEN <<"/">> ELSE joined(kept)

\* normalizeCacheKey(specPath), for paths that do not start with '~'
normalizeCacheKey(specPath) == IF IsUrl(specPath) THEN specPath ELSE pathResolve(specPath)

\* The documents behind the URLs and in the files: an OpenAPI 3 document
\* with a server and three resources, a Swagger 2 document whose definition
\* raises inside a reference, a document whose parse raises, and one in no
\* format a parser accepts.
ServedDocument ==
    JObj(OpenApi(JStr(<<"3", ".", "0", ".", "0">>))
         \o << <<<<"s", "e", "r", "v", "e", "r", "s">>, JArr(<<JObj(<< <<<<"u", "r", "l">>, JStr(<<"h", "t", "t", "p", "s", ":", "/", "/", "h">>)>> >>)>>)>>,
               <<STR_paths, JObj(<< <<<<"/", "u", "s", "e", "r", "s">>, JObj(<< <<<<"g", "e", "t">>, JObj(<<>>)>> >>)>>,
                                    <<<<"/", "v", "1", "/", "u", "s", "e", "r", "s">>, JObj(<< <<<<"g", "e", "t">>, JObj(<<>>)>> >>)>>,
                                    <<<<"/", "r", "e", "p", "o", "s">>, JObj(<< <<<<"g", "e", "t">>, JObj(<<>>)>> >>)>> >>)>> >>)

Served == [u \in {<<"h", "t", "t", "p", "s", ":", "/", "/", "h", "/", "a">>} |-> ServedDocument]

Files ==
    [f \in {<<"/", "s", "/", "b", ".", "j", "s", "o", "n">>, <<"/", "s", "/", "c", ".", "y", "m", "l">>, <<"/", "s", "/", "d", ".", "j", "s", "o", "n">>} |->
        CASE f = <<"/", "s", "/", "b", ".", "j", "s", "o", "n">> ->
                Document(Swagger(JStr(<<"2", ".", "0">>)), UsersPaths(TRUE, <<Ref(PtrA), Ref(PtrB), Ref(PtrA)>>),
                         JObj(<< <<STR_properties, JObj(<< <<STR_anyOf, TypeOnly(STR_string)>> >>)>> >>),
                         TypeOnly(STR_string))
          [] f = <<"/", "s", "/", "c", ".", "y", "m", "l">> ->
                Document(OpenApi(JStr(<<"3", ".", "0", ".", "0">>)),
                         OneOperation(<<"g", "e", "t">>, WithParameters(JArr(<<
                             QueryParam(<<"q">>, JObj(<< <<STR_anyOf, JNum(5)>> >>))>>))),
                         TypeOnly(STR_string), Ref(PtrA))
          [] f = <<"/", "s", "/", "d", ".", "j", "s", "o", "n">> -> JObj(<<>>)]

\* fetchSpec(specPath): the decoded document, or that fetching fails (no
\* response, an extension that is neither .json, .yaml nor .yml, no file).
fetchSpec(specPath) ==
    IF IsUrl(specPath)
    THEN IF specPath \in DOMAIN Served THEN [throws |-> FALSE, v |-> Served[specPath]]
         ELSE [throws |-> TRUE, v |-> Undefined]
    ELSE LET resolvedPath == pathResolve(specPath)
             lowerPath == toLowerCase(resolvedPath)
         IN  IF ~(EndsWith(lowerPath, <<".", "j", "s", "o", "n">>) \/ EndsWith(lowerPath, <<".", "y", "a", "m", "l">>)
                  \/ EndsWith(lowerPath, <<".", "y", "m", "l">>))
             THEN [throws |-> TRUE, v |-> Undefined]
             ELSE IF resolvedPath \in DOMAIN Files
                  THEN [throws |-> FALSE, v |-> Files[resolvedPath]]
                  ELSE [throws |-> TRUE, v |-> Undefined]

\* new ParserRegistry()
DefaultRegistry == register(<<>>, BuiltinParser)

\* The discoverApi calls made.
Request(specPath, baseUrl_, include, prefix) ==
    [specPath |-> specPath, baseUrl |-> baseUrl_, includeResources |-> include,
     pathPrefix |-> prefix]

Requests ==
    { Request(<<"h", "t", "t", "p", "s", ":", "/", "/", "h", "/", "a">>, b, i, p) :
        b \in {Undefined, JStr(<<"h", "t", "t", "p", "s", ":", "/", "/", "c", "u", "s", "t", "o", "m", ".", "a", "p", "i", ".", "c", "o", "m">>)},
        i \in {Undefined, JArr(<<JStr(<<"u", "s", "e", "r", "s">>)>>)},
        p \in {Undefined, JStr(<<"/", "v", "1">>)} }
    \cup { Request(<<"h", "t", "t", "p", "s", ":", "/", "/", "h", "/", "a">>, Undefined, JArr(<<>>), Undefined),
           Request(<<"b", ".", "j", "s", "o", "n">>, Undefined, Undefined, Undefined),
           Request(<<"/", "s", "/", "x", "/", ".", ".", "/", "b", ".", "j", "s", "o", "n">>, Undefined, JArr(<<JStr(<<"r", "e", "p", "o", "s">>)>>), Undefined),
           Request(<<"c", ".", "y", "m", "l">>, Undefined, Undefined, Undefined),
           Request(<<"d", ".", "j", "s", "o", "n">>, Undefined, Undefined, Undefined),
           Request(<<"e", ".", "t", "x", "t">>, Undefined, Undefined, Undefined),
           Request(<<"n", ".", "j", "s", "o", "n">>, Undefined, Undefined, Undefined),
           Request(<<"h", "t", "t", "p", ":", "/", "/", "h", "/", "n">>, Undefined, Undefined, Undefined) }

CacheSet(c, k, v) == [q \in DOMAIN c \cup {k} |-> IF q = k THEN v ELSE c[q]]

\* parser.parse(spec, baseUrl_, include, prefix) is entered.
startParse(spec, baseUrl_, include, prefix) ==
    /\ specData' = spec
    /\ includeResources' = include
    /\ pathPrefix' = prefix
    /\ baseUrlOverride' = baseUrl_
    /\ baseUrl' = Undefined
    /\ returned' = <<>>
    /\ pc' = "parse"
    /\ outcome' = "running"
    /\ tools' = <<>>
    /\ opIdx' = 1
    /\ pidx' = 1
    /\ toolName' = <<>>
    /\ parameters' = JObj(<<>>)
    /\ frames' = <<>>
    /\ ctl' = "idle"
    /\ arg' = NoArg
    /\ val' = Undefined
    /\ UNCHANGED <<specVersion, memo>>

\* The parse call is over and its result taken: its locals are gone, the
\* parser keeps this.specVersion.
parseOver ==
    /\ specData' = JObj(<<>>)
    /\ includeResources' = Undefined
    /\ pathPrefix' = Undefined
    /\ baseUrlOverride' = Undefined
    /\ baseUrl' = Undefined
    /\ returned' = <<>>
    /\ pc' = "idle"
    /\ outcome' = "running"
    /\ tools' = <<>>
    /\ opIdx' = 1
    /\ pidx' = 1
    /\ toolName' = <<>>
    /\ parameters' = JObj(<<>>)
    /\ memo' = EmptyMemo
    /\ frames' = <<>>
    /\ ctl' = "idle"
    /\ arg' = NoArg
    /\ val' = Undefined
    /\ UNCHANGED specVersion

\* The OCPAPISpec parse has returned, as the answer of discoverApi.
ParsedSpec(from) ==
    [outcome |-> "ok", base_url |-> baseUrl, tools |-> returned, raw_spec |-> specData,
     served |-> from]

Thrown(kind, from) ==
    [outcome |-> kind, base_url |-> Undefined, tools |-> <<>>, raw_spec |-> Undefined,
     served |-> from]

\* Variant: the specification of the first parse is cached whatever
\* includeResources is.
cachesParsedSpec(include) == TRUE

\* if (!includeResources): parsedSpec is what the cache gets.
cachesParsedSpecUnlessFiltered(include) == ~Truthy(include)

\* new OCPSchemaDiscovery()
DiscoveryInit ==
    /\ DiscoveryIdle
    /\ ClientIdle
    /\ NameIdle
    /\ RegistryIdle
    /\ HistoryIdle
    /\ NoParse

\* discoverApi(specPath, baseUrl, includeResources, pathPrefix), up to its
\* return from the cache, the error of fetchSpec or findParser, or the
\* parse call it makes.
DiscoverApi(r) ==
    /\ dpc = "idle"
    /\ discoveries < MaxDiscoveries
    /\ discoveries' = discoveries + 1
    /\ request' = r
    /\ LET cacheKey == normalizeCacheKey(r.specPath) IN
       IF cacheKey \in DOMAIN cache
       THEN LET cached == cache[cacheKey] IN
            IF /\ Truthy(r.includeResources)
               /\ findParser(DefaultRegistry, cached.raw_spec) # NullParser
            THEN /\ startParse(cached.raw_spec, OrElse(r.baseUrl, cached.base_url),
                               r.includeResources, r.pathPrefix)
                 /\ dpc' = "cached"
                 /\ discovered' = NoSpec
            ELSE /\ discovered' = [cached EXCEPT !.served = "cache"]
                 /\ dpc' = "idle"
                 /\ UNCHANGED parseVars
       ELSE LET spec == fetchSpec(r.specPath) IN
            IF spec.throws \/ findParser(DefaultRegistry, spec.v) = NullParser
            THEN /\ discovered' = Thrown("SchemaDiscoveryError", "fetch")
                 /\ dpc' = "idle"
                 /\ UNCHANGED parseVars
            ELSE /\ startParse(spec.v, r.baseUrl, r.includeResources, r.pathPrefix)
                 /\ dpc' = "parse"
                 /\ discovered' = NoSpec
    /\ UNCHANGED <<cache, parsedSpec, fetched, nameVars, registryVars, historyVars, clientVars>>

\* parser.parse(spec, baseUrl, includeResources, pathPrefix) is over: its
\* error is wrapped, or parsedSpec is cached and returned, or the parse
\* without filters is entered.
Parsed ==
    /\ dpc = "parse"
    /\ pc = "done"
    /\ LET cacheKey == normalizeCacheKey(request.specPath) IN
       IF outcome # "ok"
       THEN /\ discovered' = Thrown("SchemaDiscoveryError", "fetch")
            /\ dpc' = "idle"
            /\ parseOver
            /\ UNCHANGED <<cache, parsedSpec, fetched>>
       ELSE /\ fetched' = CacheSet(fetched, cacheKey,
                              [includeResources |-> request.includeResources,
                               pathPrefix |-> request.pathPrefix,
                               tools |-> returned, unfiltered |-> tools])
            /\ IF cachesParsedSpecUnlessFiltered(request.includeResources)
               THEN /\ cache' = CacheSet(cache, cacheKey, ParsedSpec("fetch"))
                    /\ discovered' = ParsedSpec("fetch")
                    /\ dpc' = "idle"
                    /\ parseOver
                    /\ UNCHANGED parsedSpec
               ELSE /\ parsedSpec' = ParsedSpec("fetch")
                    /\ startParse(specData, request.baseUrl, Undefined, Undefined)
                    /\ dpc' = "unfiltered"
                    /\ UNCHANGED <<cache, discovered>>
    /\ UNCHANGED <<request, discoveries, nameVars, registryVars, historyVars, clientVars>>

\* parser.parse(spec, baseUrl, undefined, undefined) is over: what it
\* returned is cached and parsedSpec returned.
Unfiltered ==
    /\ dpc = "unfiltered"
    /\ pc = "done"
    /\ IF outcome # "ok"
       THEN /\ discovered' = Thrown("SchemaDiscoveryError", "fetch")
            /\ cache' = cache
       ELSE /\ cache' = CacheSet(cache, normalizeCacheKey(request.specPath), ParsedSpec("fetch"))
            /\ discovered' = parsedSpec
    /\ dpc' = "idle"
    /\ parsedSpec' = NoSpec
    /\ parseOver
    /\ UNCHANGED <<request, fetched, discoveries, nameVars, registryVars, historyVars, clientVars>>

\* parser.parse(cached.raw_spec, baseUrl || cached.base_url, includeResources,
\* pathPrefix) is over: what it returned or raised is what discoverApi
\* returns or raises.
CachedParsed ==
    /\ dpc = "cached"
    /\ pc = "done"
    /\ discovered' = IF outcome = "ok" THEN ParsedSpec("cache") ELSE Thrown(outcome, "cache")
    /\ dpc' = "idle"
    /\ parseOver
    /\ UNCHANGED <<cache, request, parsedSpec, fetched, discoveries, nameVars, registryVars,
                   historyVars, clientVars>>

DiscoveryNext ==
    \/ Next
    \/ \E r \in Requests : DiscoverApi(r)
    \/ Parsed
    \/ Unfiltered
    \/ CachedParsed

DiscoverySpec == DiscoveryInit /\ [][DiscoveryNext]_vars

(***************************************************************************)
(* OCPHTTPClient.request (http_client.ts): each call runs up to fetch,     *)
(* then waits for fetch and for response.text() to settle; calls may be in *)
(* flight together.  URLs are of the form scheme://host[/path][?query]     *)
(* without port, credentials or fragment.                                  *)
(***************************************************************************)
MaxRequests == 2

\* new URL(s): the parts of the URL, or that the constructor raises
\* TypeError (no http or https scheme here, or no host).
URL(s) ==
    LET RECURSIVE Before(_, _)
        \* the part of t before the first of the characters stops
        Before(t, stops) ==
            IF t = <<>> \/ Head(t) \in stops THEN <<>>
            ELSE <<Head(t)>> \o Before(Tail(t), stops)
        From(t, stops) == SubSeq(t, Len(Before(t, stops)) + 1, Len(t))
        scheme == IF StartsWith(s, <<"h", "t", "t", "p", "s", ":", "/", "/">>) THEN <<"h", "t", "t", "p", "s">> ELSE <<"h", "t", "t", "p">>
        rest == SubSeq(s, Len(scheme) + 4, Len(s))
        host == Before(rest, {"/", "?"})
        tail == From(rest, {"/", "?"})
    IN  IF ~IsUrl(s) \/ host = <<>>
        THEN [throws |-> TRUE, protocol |-> <<>>, hostname |-> <<>>, pathname |-> <<>>,
              search |-> <<>>]
        ELSE [throws |-> FALSE, protocol |-> scheme, hostname |-> toLowerCase(host),
              pathname |-> IF tail # <<>> /\ Head(tail) = "/" THEN Before(tail, {"?"}) ELSE <<"/">>,
              search |-> From(tail, {"?"})]

\* url.toString()
href(u) == u.protocol \o <<":", "/", "/">> \o u.hostname \o u.pathname \o u.search

\* finalUrl.searchParams.append(key, String(value)) for each entry of params
RECURSIVE appendParams(_, _)
appendParams(u, entries) ==
    IF entries = <<>> THEN u
    ELSE appendParams(
            [u EXCEPT !.search = (IF u.search = <<>> THEN <<"?">> ELSE u.search \o <<"&">>)
                                 \o Head(entries)[1] \o <<"=">> \o templateString(Head(entries)[2])],
            Tail(entries))

\* baseUrl?.replace(/\/$/, '')
withoutTrailingSlash(b) ==
    IF b = Undefined THEN Undefined
    ELSE IF b.s # <<>> /\ b.s[Len(b.s)] = "/" THEN JStr(SubSeq(b.s, 1, Len(b.s) - 1))
    ELSE b

\* context.addInteraction(action, apiEndpoint, result, metadata): the
\* interaction is added at the end of context.history.
addInteraction(h, action, apiEndpoint, result_, metadata) ==
    Append(h, [action |-> action, api_endpoint |-> apiEndpoint, result |-> result_,
               metadata |-> metadata])

\* Variant: only the calls that got a response are logged.
logResponsesOnly(auto, h, method, url, statusCode, error) ==
    IF ~auto \/ error # Undefined THEN h
    ELSE addInteraction(h, <<"a", "p", "i", "_", "c", "a", "l", "l", "_">> \o toLowerCase(method),
                        toUpperCase(method) \o <<" ">> \o URL(url).pathname,
                        JStr(<<"H", "T", "T", "P", " ">> \o DecimalStr(statusCode.n)), JObj(<<>>))

\* _logInteraction(method, url, response, error) with response?.status as
\* statusCode and error.message as error: context.history afterwards.
logInteraction(auto, h, method, url, statusCode, error) ==
    IF ~auto THEN h
    ELSE LET parsedUrl == URL(url)
             result_ == IF error # Undefined THEN JStr(<<"E", "r", "r", "o", "r", ":", " ">> \o error.s)
                        ELSE IF statusCode # Undefined
                             THEN JStr(<<"H", "T", "T", "P", " ">> \o DecimalStr(statusCode.n))
                             ELSE Undefined
             success == IF error = Undefined /\ Truthy(statusCode)
                        THEN statusCode.n >= 200 /\ statusCode.n < 300 ELSE FALSE
         IN  addInteraction(h, <<"a", "p", "i", "_", "c", "a", "l", "l", "_">> \o toLowerCase(method),
                 toUpperCase(method) \o <<" ">> \o parsedUrl.pathname,
                 result_,
                 JObj(<< <<<<"m", "e", "t", "h", "o", "d">>, JStr(toUpperCase(method))>>,
                         <<<<"u", "r", "l">>, JStr(url)>>,
                         <<<<"d", "o", "m", "a", "i", "n">>, JStr(parsedUrl.hostname)>>,
                         <<<<"s", "u", "c", "c", "e", "s", "s">>, JBool(success)>> >>
                      \o (IF statusCode # Undefined THEN << <<<<"s", "t", "a", "t", "u", "s", "_", "c", "o", "d", "e">>, statusCode>> >>
                          ELSE <<>>)
                      \o (IF error # Undefined THEN << <<<<"e", "r", "r", "o", "r">>, error>> >> ELSE <<>>)))

\* The calls made of request: method, url and params.
HttpCalls ==
    { <<<<"g", "e", "t">>, <<"/", "p">>, Undefined>>,
      <<<<"P", "O", "S", "T">>, <<"h", "t", "t", "p", "s", ":", "/", "/", "O", ".", "i", "o", "/", "q">>, JObj(<< <<<<"k">>, JNum(1)>> >>)>>,
      <<<<"g", "e", "t">>, <<"h", "t", "t", "p", "s", ":", "/", "/", "o", ".", "i", "o">>, Undefined>>,
      <<<<"P", "u", "t">>, <<"p">>, Undefined>> }

\* What fetch and response.text() settle with.
Statuses == {JNum(200), JNum(404)}
FetchErrors == {JStr(<<"N", "e", "t", "w", "o", "r", "k", " ", "e", "r", "r", "o", "r">>), JStr(<<"T", "h", "i", "s", " ", "o", "p", "e", "r", "a", "t", "i", "o", "n", " ", "w", "a", "s", " ", "a", "b", "o", "r", "t", "e", "d">>)}
TextErrors == {JStr(<<"t", "e", "r", "m", "i", "n", "a", "t", "e", "d">>)}

\* new OCPHTTPClient(context, autoUpdateContext, baseUrl) on a new context
ClientInit ==
    /\ autoUpdateContext \in BOOLEAN
    /\ clientBaseUrl \in {withoutTrailingSlash(b) : b \in {Undefined, JStr(<<"h", "t", "t", "p", "s", ":", "/", "/", "h", ".", "i", "o", "/">>)}}
    /\ history = <<>>
    /\ requests = <<>>
    /\ DiscoveryIdle
    /\ NameIdle
    /\ RegistryIdle
    /\ HistoryIdle
    /\ NoParse

\* request(method, url, {params}) up to await fetch(...): new URL raises,
\* or fetch is called with finalUrl.
HttpRequest(method, url, params) ==
    /\ Len(requests) < MaxRequests
    /\ LET given == URL(IF Truthy(clientBaseUrl) /\ ~IsUrl(url) THEN clientBaseUrl.s \o url
                        ELSE url)
       IN  requests' = Append(requests,
               IF given.throws
               THEN [pc |-> "thrown", method |-> method, url |-> <<>>, reached |-> FALSE,
                     status |-> Undefined, error |-> JStr(<<"I", "n", "v", "a", "l", "i", "d", " ", "U", "R", "L">>)]
               ELSE [pc |-> "fetch", method |-> method, reached |-> TRUE,
                     url |-> href(IF Truthy(params) THEN appendParams(given, Entries(params))
                                  ELSE given),
                     status |-> Undefined, error |-> Undefined])
    /\ history' = history
    /\ UNCHANGED <<autoUpdateContext, clientBaseUrl, discoveryVars, nameVars, registryVars,
                  historyVars, parseVars>>

\* fetch resolves with a response: the call goes on to await response.text().
FetchResolves(id, status) ==
    /\ id \in DOMAIN requests
    /\ requests[id].pc = "fetch"
    /\ requests' = [requests EXCEPT ![id].pc = "text", ![id].status = status]
    /\ history' = history
    /\ UNCHANGED <<autoUpdateContext, clientBaseUrl, discoveryVars, nameVars, registryVars,
                  historyVars, parseVars>>

\* fetch rejects (the network, or the abort of the timeout): the catch block
\* logs the error and throws it.
FetchRejects(id, error) ==
    /\ id \in DOMAIN requests
    /\ requests[id].pc = "fetch"
    /\ history' = logInteraction(autoUpdateContext, history, requests[id].method,
                                 requests[id].url, Undefined, error)
    /\ requests' = [requests EXCEPT ![id].pc = "thrown", ![id].error = error]
    /\ UNCHANGED <<autoUpdateContext, clientBaseUrl, discoveryVars, nameVars, registryVars,
                  historyVars, parseVars>>

\* response.text() resolves: the response is wrapped, logged and returned.
TextResolves(id) ==
    /\ id \in DOMAIN requests
    /\ requests[id].pc = "text"
    /\ history' = logInteraction(autoUpdateContext, history, requests[id].method,
                                 requests[id].url, requests[id].status, Undefined)
    /\ requests' = [requests EXCEPT ![id].pc = "returned"]
    /\ UNCHANGED <<autoUpdateContext, clientBaseUrl, discoveryVars, nameVars, registryVars,
                  historyVars, parseVars>>

\* response.text() rejects: the catch block logs the error and throws it.
TextRejects(id, error) ==
    /\ id \in DOMAIN requests
    /\ requests[id].pc = "text"
    /\ history' = logInteraction(autoUpdateContext, history, requests[id].method,
                                 requests[id].url, Undefined, error)
    /\ requests' = [requests EXCEPT ![id].pc = "thrown", ![id].error = error]
    /\ UNCHANGED <<autoUpdateContext, clientBaseUrl, discoveryVars, nameVars, registryVars,
                  historyVars, parseVars>>

ClientNext ==
    \/ \E c \in HttpCalls : HttpRequest(c[1], c[2], c[3])
    \/ \E id \in 1..MaxRequests, status \in Statuses : FetchResolves(id, status)
    \/ \E id \in 1..MaxRequests, error \in FetchErrors : FetchRejects(id, error)
    \/ \E id \in 1..MaxRequests : TextResolves(id)
    \/ \E id \in 1..MaxRequests, error \in TextErrors : TextRejects(id, error)

ClientSpec == ClientInit /\ [][ClientNext]_vars

(***************************************************************************)
(* Properties                                                              *)
(***************************************************************************)
\* A call of resolveRefs has just completed (arg is what it was called with).
Completed == ctl \in {"ret", "throw"}

\* A node { $ref: '#/...' }: a pure internal reference.
IsInternalRef(node) ==
    /\ node.k = "object"
    /\ Len(node.e) = 1
    /\ node.e[1][1] = STR_ref
    /\ node.e[1][2].k = "string"
    /\ StartsWith(node.e[1][2].s, STR_hashSlash)

Pointer(node) == node.e[1][2].s

\* The value the pointer of a reference names in the document, JNull when
\* the path does not exist.
Target(node) == lookupRef(specData, Pointer(node))

\* A schema with type: "object" or with a properties key.
ObjectShaped(schema) ==
    /\ IsObjectType(schema)
    /\ (IsStr(Get(schema, STR_type), STR_object) \/ In(schema, STR_properties))

NoDuplicates(s) == \A i, j \in 1..Len(s) : s[i] = s[j] => i = j

\* C1: reference resolution always terminates: every call of resolveRefs
\* that parse makes, on documents with self-referential and mutually
\* referential pointers too, completes after finitely many steps.
ResolutionTerminates == [](ctl = "call" => <>(ctl # "call" /\ frames = <<>>))

\* C1 witness: a resolution that met a cycle has completed.
TerminatedAfterCycle ==
    /\ Completed
    /\ frames = <<>>
    /\ \E p \in DOMAIN memo : memo[p] = CircularPlaceholder

\* C2, as stated: every pure internal $ref met while its pointer is on the
\* resolution stack is replaced by the circular-reference placeholder, and
\* the placeholder is memoized for the pointer.
CycleYieldsPlaceholder ==
    (Completed /\ IsInternalRef(arg.obj) /\ stackIncludes(arg.stack, Pointer(arg.obj)))
        => /\ ctl = "ret"
           /\ val = CircularPlaceholder
           /\ Pointer(arg.obj) \in DOMAIN memo
           /\ memo[Pointer(arg.obj)] = CircularPlaceholder

\* C2, amended: the same, except for a $ref inside an anyOf/oneOf/allOf
\* branch whose target is object-shaped, which is returned unexpanded.
CycleYieldsPlaceholderOutsideKeptRefs ==
    (/\ Completed
     /\ IsInternalRef(arg.obj)
     /\ stackIncludes(arg.stack, Pointer(arg.obj))
     /\ ~(arg.poly /\ ObjectShaped(Target(arg.obj))))
        => /\ ctl = "ret"
           /\ val = CircularPlaceholder
           /\ Pointer(arg.obj) \in DOMAIN memo
           /\ memo[Pointer(arg.obj)] = CircularPlaceholder

\* C2 witness: a $ref outside any composition keyword whose pointer is on
\* the stack has returned the placeholder.
CycleMet ==
    /\ ctl = "ret"
    /\ IsInternalRef(arg.obj)
    /\ stackIncludes(arg.stack, Pointer(arg.obj))
    /\ val = CircularPlaceholder
    /\ ~arg.poly

\* C3: a pure internal $ref outside any composition keyword whose pointer
\* path does not exist resolves to the unresolved-reference placeholder,
\* which is memoized for the pointer.
MissingYieldsPlaceholder ==
    (Completed /\ IsInternalRef(arg.obj) /\ ~arg.poly /\ Target(arg.obj) = JNull)
        => /\ ctl = "ret"
           /\ val = UnresolvedPlaceholder
           /\ Pointer(arg.obj) \in DOMAIN memo
           /\ memo[Pointer(arg.obj)] = UnresolvedPlaceholder

\* No mapping of the tree has a $ref key.
RECURSIVE NoRefKey(_)
NoRefKey(v) ==
    CASE v.k = "object" ->
            \A i \in 1..Len(v.e) : v.e[i][1] # STR_ref /\ NoRefKey(v.e[i][2])
      [] v.k = "array" -> \A i \in 1..Len(v.a) : NoRefKey(v.a[i])
      [] OTHER -> TRUE

\* The trees are structurally identical (the order of keys aside).
RECURSIVE SameTree(_, _)
SameTree(a, b) ==
    IF a.k # b.k THEN FALSE
    ELSE CASE a.k = "object" ->
                /\ Len(a.e) = Len(b.e)
                /\ \A i \in 1..Len(a.e) :
                    In(b, a.e[i][1]) /\ SameTree(a.e[i][2], Get(b, a.e[i][1]))
           [] a.k = "array" ->
                /\ Len(a.a) = Len(b.a)
                /\ \A i \in 1..Len(a.a) : SameTree(a.a[i], b.a[i])
           [] OTHER -> a = b

\* C4: identity law: for a tree without any $ref key resolveRefs returns a
\* structurally identical tree, whatever insidePolymorphic, memo and stack.
IdentityWithoutRefs ==
    (Completed /\ NoRefKey(arg.obj)) => (ctl = "ret" /\ SameTree(val, arg.obj))

\* C5: inside a composition branch a pure internal $ref is returned
\* unexpanded exactly when its target is object-shaped or the lookup of its
\* target fails.
KeptExactlyWhenObjectShapedOrMissing ==
    (ctl = "ret" /\ IsInternalRef(arg.obj) /\ arg.poly)
        => ((val = arg.obj) <=>
                (ObjectShaped(Target(arg.obj)) \/ Target(arg.obj) = JNull))

StackHasNoDuplicates ==
    /\ NoDuplicates(arg.stack)
    /\ \A i \in 1..Len(frames) :
        /\ NoDuplicates(frames[i].stack)
        /\ NoDuplicates(frames[i].cstack)
        /\ frames[i].kind = "ref" =>
            /\ ~stackIncludes(frames[i].stack, frames[i].key)
            /\ frames[i].cstack = Append(frames[i].stack, frames[i].key)

\* C7 witness: with two pointers on the stack, the first is met again.
CycleMetUnderTwoPointers ==
    /\ ctl = "ret"
    /\ Len(arg.stack) = 2
    /\ IsInternalRef(arg.obj)
    /\ Pointer(arg.obj) = arg.stack[1]
    /\ val = CircularPlaceholder

\* What version detection came to.
Detected == IF specVersion # "unset" THEN specVersion ELSE outcome

HasStringField(field, prefix) ==
    /\ In(specData, field)
    /\ Get(specData, field).k = "string"
    /\ StartsWith(Get(specData, field).s, prefix)

\* C8: with a swagger field the version is swagger_2 for a string starting
\* with "2." and UnsupportedVersion otherwise; else with an openapi field it
\* is openapi_3.0 / 3.1 / 3.2 by the prefix of the string and
\* UnsupportedVersion otherwise; with neither field MissingVersionField.
VersionRule ==
    pc # "parse" =>
        /\ In(specData, STR_swagger) =>
            Detected = (IF HasStringField(STR_swagger, <<"2", ".">>)
                        THEN "swagger_2" ELSE "UnsupportedVersion")
        /\ (~In(specData, STR_swagger) /\ In(specData, STR_openapi)) =>
            /\ HasStringField(STR_openapi, <<"3", ".", "0">>) <=> Detected = "openapi_3.0"
            /\ HasStringField(STR_openapi, <<"3", ".", "1">>) <=> Detected = "openapi_3.1"
            /\ HasStringField(STR_openapi, <<"3", ".", "2">>) <=> Detected = "openapi_3.2"
            /\ Detected \in {"openapi_3.0", "openapi_3.1", "openapi_3.2", "UnsupportedVersion"}
        /\ (~In(specData, STR_swagger) /\ ~In(specData, STR_openapi)) =>
            Detected = "MissingVersionField"

\* C8 witness: a document with an unsupported swagger field and a valid
\* openapi field has been refused.
SwaggerFieldDecides ==
    /\ pc = "done"
    /\ In(specData, STR_swagger)
    /\ HasStringField(STR_openapi, <<"3", ".", "0">>)
    /\ outcome = "UnsupportedVersion"

\* C9: the only failures of parse are the version failures: a document that
\* passes version detection yields a specification, whatever the shape of
\* its operations, parameters and schemas.
OnlyVersionFailures ==
    pc = "done" =>
        /\ outcome \in {"ok", "UnsupportedVersion", "MissingVersionField"}
        /\ specVersion \in VersionTags => outcome = "ok"

\* The (method, path) pairs of the tools, in order.
Emitted == [i \in 1..Len(tools) |-> <<tools[i].method, tools[i].path>>]

\* The (upper-cased key, path) pairs of the path items of the document whose
\* key is one of the five methods in any letter case and whose value is an
\* object (typeof 'object' and not null), in document order.
RECURSIVE OperationsOf(_, _)
OperationsOf(path, item) ==
    IF item = <<>> THEN <<>>
    ELSE (IF /\ toLowerCase(Head(item)[1]) \in
                    {<<"g", "e", "t">>, <<"p", "o", "s", "t">>, <<"p", "u", "t">>,
                     <<"p", "a", "t", "c", "h">>, <<"d", "e", "l", "e", "t", "e">>}
             /\ IsObjectType(Head(item)[2])
          THEN << <<toUpperCase(Head(item)[1]), path>> >> ELSE <<>>)
         \o OperationsOf(path, Tail(item))

RECURSIVE OperationsIn(_)
OperationsIn(paths) ==
    IF paths = <<>> THEN <<>>
    ELSE (IF IsObjectType(Head(paths)[2])
          THEN OperationsOf(Head(paths)[1], Entries(Head(paths)[2])) ELSE <<>>)
         \o OperationsIn(Tail(paths))

\* C10: the specification parse returns holds exactly one tool for each
\* (path, key) pair whose key is get, post, put, patch or delete in any
\* letter case and whose value is an operation object, in document order,
\* with the upper-cased key as method and the path as path; no other key of
\* a path item yields a tool.
OneToolPerOperation ==
    outcome = "ok" =>
        Emitted = OperationsIn(Entries(OrElse(Get(specData, STR_paths), JObj(<<>>))))

\* C10 witness: a specification is returned for path items that also hold
\* head, options, trace and parameters keys, upper-case method keys and
\* operations that are no objects.
MixedPathItemsMapped ==
    /\ outcome = "ok"
    /\ Get(specData, STR_paths) = MixedPaths
    /\ Len(tools) = 5

\* The names of the tools, in order.
Names == [i \in 1..Len(tools) |-> tools[i].name]

\* The name synthesized from method and path: the lower-cased method, then
\* the path with every '/' turned into '_' and the braces dropped.
RECURSIVE PathPart(_)
PathPart(path) ==
    IF path = <<>> THEN <<>>
    ELSE (CASE Head(path) = "/" -> <<"_">>
            [] Head(path) \in {"{", "}"} -> <<>>
            [] OTHER -> <<Head(path)>>) \o PathPart(Tail(path))

Synthesized(method, path) == toLowerCase(method) \o PathPart(path)

\* C11: naming policy: the name of a tool is the normalization of its
\* operationId when that is a valid name, and otherwise (no operationId, or
\* one whose normalization is invalid) the normalization of the name
\* synthesized from the lower-cased method and the path.
NamedByPolicy ==
    \A i \in 1..Len(tools) :
        LET id == tools[i].operation_id IN
        IF id.k = "string" /\ isValidToolName(normalizeToolName(id.s))
        THEN tools[i].name = normalizeToolName(id.s)
        ELSE tools[i].name =
                normalizeToolName(Synthesized(tools[i].method, tools[i].path))

\* C11 witness: GET /users, POST /users and GET /users/{id} without
\* operationId are named getUsers, postUsers and getUsersId, next to
\* operations named after a valid operationId and after the path when the
\* operationId is "123invalid", "___" or empty.
PolicyNamesEmitted ==
    /\ outcome = "ok"
    /\ Names = << <<"g", "e", "t", "U", "s", "e", "r", "s">>, <<"p", "o", "s", "t", "U", "s", "e", "r", "s">>, <<"g", "e", "t", "U", "s", "e", "r", "s", "I", "d">>, <<"f", "e", "t", "c", "h", "A", "c", "c", "o", "u", "n", "t">>,
                  <<"d", "e", "l", "e", "t", "e", "U", "s", "e", "r", "s", "I", "d">>, <<"p", "a", "t", "c", "h", "U", "s", "e", "r", "s", "I", "d">>, <<"l", "i", "s", "t", "U", "s", "e", "r", "s">>, <<"l", "i", "s", "t", "U", "s", "e", "r", "s">>,
                  <<"p", "o", "s", "t", "B">> >>

\* The ASCII letters.
AsciiLetters ==
    { "a", "b", "c", "d", "e", "f", "g", "h", "i", "j", "k", "l", "m", "n", "o",
      "p", "q", "r", "s", "t", "u", "v", "w", "x", "y", "z", "A", "B", "C", "D",
      "E", "F", "G", "H", "I", "J", "K", "L", "M", "N", "O", "P", "Q", "R", "S",
      "T", "U", "V", "W", "X", "Y", "Z" }

StartsWithLetter(s) == s # <<>> /\ s[1] \in AsciiLetters

\* Strings isValidToolName is asked about: every string of up to two
\* characters of a letter, a capital, a digit, a separator, a blank and a
\* letter outside ASCII, and the names of the unit tests.
NameSamples ==
    LET chars == {"a", "Z", "1", "_", " ", "é"} IN
    {<<>>} \cup {<<c>> : c \in chars} \cup {<<c, e>> : c \in chars, e \in chars}
    \cup {<<"1", "2", "3", "i", "n", "v", "a", "l", "i", "d">>, <<"_", "_", "_">>, <<"v", "a", "l", "i", "d", "N", "a", "m", "e">>, <<"g", "e", "t", "U", "s", "e", "r", "s">>}

\* C12: every tool parse emits has a valid name: non-empty, starting with
\* an ASCII letter; and isValidToolName holds exactly of the non-empty
\* strings that start with an ASCII letter.
ToolNamesValid ==
    /\ \A i \in 1..Len(tools) : StartsWithLetter(tools[i].name)
    /\ \A s \in NameSamples : isValidToolName(s) <=> StartsWithLetter(s)

\* C12 witness: tools are emitted for operations whose operationId
\* normalizes to "123invalid" and "___".
InvalidOperationIdsPassedOver ==
    /\ outcome = "ok"
    /\ Len(tools) = 9
    /\ tools[5].operation_id = JStr(<<"1", "2", "3", "i", "n", "v", "a", "l", "i", "d">>)
    /\ tools[6].operation_id = JStr(<<"_", "_", "_">>)
    /\ ~isValidToolName(normalizeToolName(<<"1", "2", "3", "i", "n", "v", "a", "l", "i", "d">>))
    /\ ~isValidToolName(normalizeToolName(<<"_", "_", "_">>))

\* The (method, path) pairs of the operations parse maps, in document order.
Mapped == OperationsIn(Entries(OrElse(Get(specData, STR_paths), JObj(<<>>))))

\* C13: nothing is deduplicated: the tool list is as long as the list of
\* mapped operations, and tools of one name are each there for their own
\* operation.
NothingDeduplicated ==
    outcome = "ok" =>
        /\ Len(tools) = Len(Mapped)
        /\ \A i, j \in 1..Len(tools) :
            (i # j /\ tools[i].name = tools[j].name) =>
                /\ Emitted[i] = Mapped[i]
                /\ Emitted[j] = Mapped[j]

\* C13 witness: operationIds list_users and listUsers of two operations
\* have both given a tool named listUsers.
TwoToolsOfOneName ==
    /\ outcome = "ok"
    /\ \E i, j \in 1..Len(tools) :
        /\ i # j
        /\ tools[i].name = tools[j].name
        /\ tools[i].operation_id = JStr(<<"l", "i", "s", "t", "_", "u", "s", "e", "r", "s">>)
        /\ tools[j].operation_id = JStr(<<"l", "i", "s", "t", "U", "s", "e", "r", "s">>)

\* The tokens of a name, read off in one pass: a token ends at a run of
\* '/', '_', '-', '.' or blanks, and before an upper-case letter that
\* directly follows a lower-case letter or a digit.
RECURSIVE TokensFrom(_, _, _)
TokensFrom(s, i, cur) ==
    LET close == IF cur = <<>> THEN <<>> ELSE <<cur>> IN
    IF i > Len(s) THEN close
    ELSE IF s[i] \in {"/", "_", "-", ".", " "} THEN close \o TokensFrom(s, i + 1, <<>>)
    ELSE IF /\ i > 1
            /\ s[i] \in AsciiLetters /\ toUpperCase(<<s[i]>>) = <<s[i]>>
            /\ \/ s[i - 1] \in {"0", "1", "2", "3", "4", "5", "6", "7", "8", "9"}
               \/ s[i - 1] \in AsciiLetters /\ toLowerCase(<<s[i - 1]>>) = <<s[i - 1]>>
         THEN close \o TokensFrom(s, i + 1, <<s[i]>>)
    ELSE TokensFrom(s, i + 1, Append(cur, s[i]))

Tokens(s) == TokensFrom(s, 1, <<>>)

RECURSIVE CamelFrom(_, _)
CamelFrom(ts, i) ==
    IF i > Len(ts) THEN <<>>
    ELSE (IF i = 1 THEN toLowerCase(ts[i])
          ELSE toUpperCase(<<ts[i][1]>>) \o toLowerCase(Tail(ts[i])))
         \o CamelFrom(ts, i + 1)

\* What steps (a) to (e) give for a name.
CamelCase(s) == IF Tokens(s) = <<>> THEN s ELSE CamelFrom(Tokens(s), 1)

\* C14: normalizeToolName computes steps (a) to (e) for every input: a
\* boundary between a lower-case letter or digit and a directly following
\* upper-case letter, every run of separators one blank, split on blanks
\* without empty tokens, an input without tokens returned unchanged, else
\* the first token lower-cased and every later one capitalised; so
\* FetchAccount gives fetchAccount, admin_apps_approve adminAppsApprove,
\* v2010/Accounts v2010Accounts and SMS/send smsSend.
NormalizeFollowsSteps ==
    normalized # Undefined =>
        /\ normalized = JStr(CamelCase(rawName))
        /\ rawName = <<"F", "e", "t", "c", "h", "A", "c", "c", "o", "u", "n", "t">> => normalized = JStr(<<"f", "e", "t", "c", "h", "A", "c", "c", "o", "u", "n", "t">>)
        /\ rawName = <<"a", "d", "m", "i", "n", "_", "a", "p", "p", "s", "_", "a", "p", "p", "r", "o", "v", "e">> => normalized = JStr(<<"a", "d", "m", "i", "n", "A", "p", "p", "s", "A", "p", "p", "r", "o", "v", "e">>)
        /\ rawName = <<"v", "2", "0", "1", "0", "/", "A", "c", "c", "o", "u", "n", "t", "s">> => normalized = JStr(<<"v", "2", "0", "1", "0", "A", "c", "c", "o", "u", "n", "t", "s">>)
        /\ rawName = <<"S", "M", "S", "/", "s", "e", "n", "d">> => normalized = JStr(<<"s", "m", "s", "S", "e", "n", "d">>)
        /\ rawName = <<"r", "e", "p", "o", "s", "/", "d", "i", "s", "a", "b", "l", "e", "-", "v", "u", "l", "n", "e", "r", "a", "b", "i", "l", "i", "t", "y", "-", "a", "l", "e", "r", "t", "s">> =>
              normalized = JStr(<<"r", "e", "p", "o", "s", "D", "i", "s", "a", "b", "l", "e", "V", "u", "l", "n", "e", "r", "a", "b", "i", "l", "i", "t", "y", "A", "l", "e", "r", "t", "s">>)

\* C14 witness: SMS/send has been normalized to smsSend.
AcronymNormalized ==
    /\ rawName = <<"S", "M", "S", "/", "s", "e", "n", "d">>
    /\ normalized = JStr(<<"s", "m", "s", "S", "e", "n", "d">>)

\* C15: every ParameterSpec in the parameters of every tool parse emits has
\* a location that is one of query, path, header, body.
Locations == {JStr(STR_query), JStr(<<"p", "a", "t", "h">>), JStr(<<"h", "e", "a", "d", "e", "r">>), JStr(STR_body)}

LocationsEnumerated ==
    \A i \in 1..Len(tools) :
        \A en \in {tools[i].parameters.e[j] : j \in 1..Len(tools[i].parameters.e)} :
            Get(en[2], STR_location) \in Locations

\* The step in which the body parameters of the resolved body schema val
\* are merged into the parameters of the operation.
BodyMerged == pc = "bodySchema" /\ pc' = "body"

\* The properties of the resolved body schema when its type is object and
\* its required is an array or absent; none otherwise.
ObjectProperties ==
    IF /\ IsStr(Get(val, STR_type), STR_object)
       /\ OrElse(Get(val, STR_required), JArr(<<>>)).k = "array"
    THEN LET es == Entries(OrElse(Get(val, STR_properties), JObj(<<>>)))
         IN  {es[i] : i \in 1..Len(es)}
    ELSE {}

InRequiredArray(name_) ==
    LET required == OrElse(Get(val, STR_required), JArr(<<>>)).a
    IN  \E i \in 1..Len(required) : required[i] = JStr(name_)

\* The merge has stored a body parameter for the property en.
YieldsBodyParameter(en) ==
    LET stored == Get(parameters', en[1]) IN
    /\ Get(stored, STR_location) = JStr(STR_body)
    /\ Get(stored, STR_required) = JBool(InRequiredArray(en[1]))

\* The tool pushed for a GET or DELETE operation has the parameters of
\* the parameter list, each with the location of its in field, and the
\* body schema of such an operation is not looked at.
NothingFromBody ==
    (/\ pc \in {"body", "responses", "responseSchema"}
     /\ toUpperCase(entry.method) \in {<<"G", "E", "T">>, <<"D", "E", "L", "E", "T", "E">>}) =>
        /\ pc' # "bodySchema"
        /\ tools' # tools =>
            LET ps == parameterList(entry.operation)
                stored == tools'[Len(tools')].parameters.e
            IN  \A j \in 1..Len(stored) :
                    \E i \in 1..Len(ps) :
                        /\ Get(ps[i], STR_name) = JStr(stored[j][1])
                        /\ Get(stored[j][2], STR_location)
                               = OrElse(Get(ps[i], STR_in), JStr(STR_query))

\* C16 as stated: each property of a resolved body schema of type object
\* of a POST, PUT or PATCH operation yields one parameter with location
\* body, required iff its name is in the required array; for GET and DELETE
\* no parameter is derived from a request body.
EachPropertyYieldsBodyParameter ==
    [][/\ BodyMerged => \A en \in ObjectProperties : YieldsBodyParameter(en)
       /\ NothingFromBody]_vars

\* C16: each property whose schema is an object (or an array) yields one
\* parameter with location body, required iff its name is in the required
\* array; a property whose schema is anything else yields none, the
\* parameter stored under its name stays as it was; for GET and DELETE no
\* parameter is derived from a request body.
EachObjectPropertyYieldsBodyParameter ==
    [][/\ BodyMerged =>
            \A en \in ObjectProperties :
                IF IsObjectType(en[2]) THEN YieldsBodyParameter(en)
                ELSE Get(parameters', en[1]) = Get(parameters, en[1])
       /\ NothingFromBody]_vars

\* C16 witness: POST /users of ParameterDocuments has its tool: name is a
\* required body parameter, email an optional one, the properties flag and
\* note, whose schemas are a boolean and a string, gave none; GET /users
\* has its tool with name as the header parameter it lists.
BodyDecomposed ==
    /\ specData \in ParameterDocuments
    /\ \E i, j \in 1..Len(tools) :
        /\ tools[i].method = <<"P", "O", "S", "T">>
        /\ LET ps == tools[i].parameters IN
            /\ Get(Get(ps, <<"n", "a", "m", "e">>), STR_location) = JStr(STR_body)
            /\ Get(Get(ps, <<"n", "a", "m", "e">>), STR_required) = JBool(TRUE)
            /\ Get(Get(ps, <<"e", "m", "a", "i", "l">>), STR_location) = JStr(STR_body)
            /\ Get(Get(ps, <<"e", "m", "a", "i", "l">>), STR_required) = JBool(FALSE)
            /\ ~In(ps, <<"f", "l", "a", "g">>) /\ ~In(ps, <<"n", "o", "t", "e">>)
        /\ tools[j].method = <<"G", "E", "T">>
        /\ Get(Get(tools[j].parameters, <<"n", "a", "m", "e">>), STR_location) = JStr(<<"h", "e", "a", "d", "e", "r">>)
        /\ ~In(tools[j].parameters, <<"e", "m", "a", "i", "l">>)

\* The operations of the document a tool can stand for: those under its
\* path whose key is its method in some letter case.
OperationsAt(t) ==
    LET item == Entries(Get(OrElse(Get(specData, STR_paths), JObj(<<>>)), t.path))
    IN  {item[i][2] : i \in {j \in 1..Len(item) : toUpperCase(item[j][1]) = t.method}}

\* The names of the parameters an operation lists.
ListedNames(operation) ==
    LET ps == parameterList(operation)
    IN  {Get(ps[i], STR_name).s :
            i \in {j \in 1..Len(ps) : IsObjectType(ps[j]) /\ Get(ps[j], STR_name).k = "string"}}

\* The request-body schemas of an operation in the layout of the detected
\* version, with a reference to a definition followed.
BodySchemas(operation) ==
    LET ps == parameterList(operation)
        given == IF specVersion = "swagger_2"
                 THEN {Get(ps[i], STR_schema) :
                          i \in {j \in 1..Len(ps) : IsStr(Get(ps[j], STR_in), STR_body)}}
                 ELSE {jsonSchema(Get(operation, STR_requestBody))}
    IN  {IF IsInternalRef(s) THEN Target(s) ELSE s : s \in given}

\* The names of the properties of the body schemas of type object whose
\* own schema is a mapping without references.
BodyPropertyNames(operation) ==
    UNION { LET es == Entries(OrElse(Get(s, STR_properties), JObj(<<>>)))
            IN  {es[i][1] : i \in {j \in 1..Len(es) : es[j][2].k = "object" /\ NoRefKey(es[j][2])}}
            : s \in {b \in BodySchemas(operation) :
                        b.k = "object" /\ IsStr(Get(b, STR_type), STR_object)} }

\* C17: when a named parameter of a POST, PUT or PATCH operation and a
\* property of its request-body schema have the same name, the parameters
\* of the tool hold the ParameterSpec of the body property under that name
\* (location body).
BodyPropertyWins ==
    outcome = "ok" =>
        \A i \in 1..Len(tools) :
            tools[i].method \in {<<"P", "O", "S", "T">>, <<"P", "U", "T">>, <<"P", "A", "T", "C", "H">>} =>
                \A operation \in OperationsAt(tools[i]) :
                    \A n \in ListedNames(operation) \cap BodyPropertyNames(operation) :
                        Get(Get(tools[i].parameters, n), STR_location) = JStr(STR_body)

\* C17 witness: POST /users lists a header parameter called name and has a
\* body schema with a property called name; its tool holds name with
\* location body, beside the path parameter id.
HeaderParameterOverwritten ==
    /\ outcome = "ok"
    /\ \E i \in 1..Len(tools) :
        /\ tools[i].method = <<"P", "O", "S", "T">>
        /\ \E operation \in OperationsAt(tools[i]) :
            /\ <<"n", "a", "m", "e">> \in BodyPropertyNames(operation)
            /\ \E p \in {parameterList(operation)[j] : j \in 1..Len(parameterList(operation))} :
                p = Param(<<"n", "a", "m", "e">>, <<"h", "e", "a", "d", "e", "r">>)
        /\ Get(Get(tools[i].parameters, <<"n", "a", "m", "e">>), STR_location) = JStr(STR_body)
        /\ Get(Get(tools[i].parameters, <<"i", "d">>), STR_location) = JStr(<<"p", "a", "t", "h">>)

\* The responses of the operation the loops are at, and its first entry,
\* in insertion order, whose key starts with "2".
ResponsesAt == OrElse(Get(entry.operation, STR_responses), JObj(<<>>))

SuccessKeys == {i \in 1..Len(ResponsesAt.e) : StartsWith(ResponsesAt.e[i][1], <<"2">>)}

FirstSuccess == ResponsesAt.e[CHOOSE i \in SuccessKeys : \A j \in SuccessKeys : i <= j][2]

\* The schema of a response in the layout of the detected version.
SchemaIn(response) ==
    IF specVersion = "swagger_2" THEN Get(response, STR_schema)
    ELSE Get(Get(Get(response, STR_content), STR_appJson), STR_schema)

\* C18: the response schema of a tool is the resolved schema of the first
\* key of the responses of its operation, in insertion order, that starts
\* with "2"; when no key starts with "2" the tool has no response schema
\* and nothing is raised.
FirstSuccessKeyDecides ==
    [][(pc = "responses" /\ ResponsesAt.k = "object") =>
            IF SuccessKeys # {} /\ Truthy(SchemaIn(FirstSuccess))
            THEN pc' = "responseSchema" /\ arg'.obj = SchemaIn(FirstSuccess)
            ELSE /\ Len(tools') = Len(tools) + 1
                 /\ tools'[Len(tools')].response_schema = Undefined
                 /\ outcome' = outcome]_vars

SlashOrDot(c) == c \in {"/", "."}

\* s from its first character on that is no separator.
RECURSIVE SkipSeparators(_)
SkipSeparators(s) ==
    IF s = <<>> \/ ~SlashOrDot(s[1]) THEN s ELSE SkipSeparators(Tail(s))

\* s from its first separator on.
RECURSIVE FromSeparator(_)
FromSeparator(s) ==
    IF s = <<>> \/ SlashOrDot(s[1]) THEN s ELSE FromSeparator(Tail(s))

\* The first segment of a path between slashes or dots that is not empty
\* and does not start with "{"; <<>> when there is none.
RECURSIVE FirstSegment(_)
FirstSegment(path) ==
    LET start == SkipSeparators(path)
        rest == FromSeparator(start)
        seg == SubSeq(start, 1, Len(start) - Len(rest))
    IN  IF start = <<>> THEN <<>>
        ELSE IF seg[1] = "{" THEN FirstSegment(rest)
        ELSE seg

\* The path without the prefix when it starts with it, letter case aside.
Unprefixed(path) ==
    IF /\ pathPrefix.k = "string"
       /\ Len(pathPrefix.s) <= Len(path)
       /\ toLowerCase(SubSeq(path, 1, Len(pathPrefix.s))) = toLowerCase(pathPrefix.s)
    THEN SubSeq(path, Len(pathPrefix.s) + 1, Len(path))
    ELSE path

\* The first segment of the path of t is one of the resource names, letter
\* case aside.
NamesResource(t) ==
    \E r \in {includeResources.a[i] : i \in 1..Len(includeResources.a)} :
        /\ FirstSegment(Unprefixed(t.path)) # <<>>
        /\ toLowerCase(FirstSegment(Unprefixed(t.path))) = toLowerCase(r.s)

\* C19: with an empty or absent resource list parse returns the tool list
\* unchanged; otherwise it returns, in order, the tools whose first
\* segment, the path prefix removed, dots read as slashes, empty segments
\* and segments starting with "{" dropped, equals one of the resource
\* names, letter case aside.
ResourceFilter ==
    outcome = "ok" =>
        IF includeResources = Undefined \/ includeResources = JArr(<<>>)
        THEN returned = tools
        ELSE returned = SelectSeq(tools, NamesResource)

\* C19 witness: with resources ["payments"] and prefix "/v1" the tools of
\* /v1/payments and /payments are returned and those of /v2/payments and
\* /user/repos are not.
OnlyUnderPrefixKept ==
    /\ outcome = "ok"
    /\ includeResources = JArr(<<JStr(<<"p", "a", "y", "m", "e", "n", "t", "s">>)>>)
    /\ pathPrefix = JStr(<<"/", "v", "1">>)
    /\ {<<"/", "v", "1", "/", "p", "a", "y", "m", "e", "n", "t", "s">>, <<"/", "v", "2", "/", "p", "a", "y", "m", "e", "n", "t", "s">>, <<"/", "u", "s", "e", "r", "/", "r", "e", "p", "o", "s">>}
           \subseteq {tools[i].path : i \in 1..Len(tools)}
    /\ <<"/", "v", "1", "/", "p", "a", "y", "m", "e", "n", "t", "s">> \in {returned[i].path : i \in 1..Len(returned)}
    /\ <<"/", "v", "2", "/", "p", "a", "y", "m", "e", "n", "t", "s">> \notin {returned[i].path : i \in 1..Len(returned)}
    /\ <<"/", "u", "s", "e", "r", "/", "r", "e", "p", "o", "s">> \notin {returned[i].path : i \in 1..Len(returned)}

\* The positions of the registered handlers that accept the document of
\* the findParser call just made.
Accepting == {i \in 1..Len(parsers) : accepts(parsers[i], found'.specData)}

\* The registry was constructed with built-in registration: only the
\* constructor registers the instance it creates.
BuiltinRegistered == \E i \in 1..Len(parsers) : parsers[i] = BuiltinParser

\* C20: after any sequence of register calls findParser returns the
\* earliest-registered handler that accepts the document, and null when no
\* registered handler accepts it; with built-in registration a document
\* with a swagger or openapi field is dispatched to the built-in handler
\* whatever was registered later.
EarliestAcceptingFound ==
    [][found' # found =>
        /\ IF Accepting = {} THEN found'.parser = NullParser
           ELSE found'.parser = parsers[CHOOSE i \in Accepting : \A j \in Accepting : i <= j]
        /\ (/\ BuiltinRegistered
            /\ \E key \in {STR_swagger, STR_openapi} :
                   \E i \in 1..Len(found'.specData.e) : found'.specData.e[i][1] = key)
           => found'.parser = BuiltinParser]_vars

\* C20 witness: findParser was called with three handlers registered, the
\* built-in one, then one that accepts every document, then one for
\* documents with a someFormat field, on a Swagger document with a
\* someFormat field: it went to the built-in handler.
DispatchedPastLaterHandlers ==
    /\ found.registered = 3
    /\ parsers = <<BuiltinParser, [format |-> "Everything", n |-> 1],
                   [format |-> "SomeFormat", n |-> 1]>>
    /\ In(found.specData, STR_swagger)
    /\ In(found.specData, <<"s", "o", "m", "e", "F", "o", "r", "m", "a", "t">>)
    /\ found.parser = BuiltinParser

\* A field of the document that is a string, or absent.
StringOrAbsent(key) == Get(specData, key).k \in {"string", "undefined"}

\* The string a field holds, the empty string when it is absent.
Field(key) == IF Get(specData, key).k = "string" THEN Get(specData, key).s ELSE <<>>

\* The first scheme of the document, https when it lists none.
FirstScheme ==
    IF Get(specData, <<"s", "c", "h", "e", "m", "e", "s">>).k = "array" /\ Get(specData, <<"s", "c", "h", "e", "m", "e", "s">>).a # <<>>
    THEN Get(specData, <<"s", "c", "h", "e", "m", "e", "s">>).a[1].s
    ELSE <<"h", "t", "t", "p", "s">>

\* host and basePath are strings or absent, schemes is an array of strings
\* or absent; servers is an array of objects or absent.
BaseUrlFieldsTyped ==
    /\ StringOrAbsent(<<"h", "o", "s", "t">>) /\ StringOrAbsent(<<"b", "a", "s", "e", "P", "a", "t", "h">>)
    /\ Get(specData, <<"s", "c", "h", "e", "m", "e", "s">>).k \in {"array", "undefined"}
    /\ Get(specData, <<"s", "c", "h", "e", "m", "e", "s">>).k = "array" =>
           \A i \in 1..Len(Get(specData, <<"s", "c", "h", "e", "m", "e", "s">>).a) :
               Get(specData, <<"s", "c", "h", "e", "m", "e", "s">>).a[i].k = "string"
    /\ Get(specData, <<"s", "e", "r", "v", "e", "r", "s">>).k \in {"array", "undefined"}
    /\ Get(specData, <<"s", "e", "r", "v", "e", "r", "s">>).k = "array" =>
           \A i \in 1..Len(Get(specData, <<"s", "e", "r", "v", "e", "r", "s">>).a) :
               /\ Get(specData, <<"s", "e", "r", "v", "e", "r", "s">>).a[i].k = "object"
               /\ Get(Get(specData, <<"s", "e", "r", "v", "e", "r", "s">>).a[i], <<"u", "r", "l">>).k \in {"string", "undefined"}

\* C21: the base_url of the specification parse returns is the override
\* when a non-empty one is given; otherwise, for Swagger 2, the first scheme
\* (https when there is none), "://", host and basePath, the empty string
\* when host is absent, and for OpenAPI 3.x the url of the first servers
\* entry, the empty string when there is none.
BaseUrlRule ==
    (outcome = "ok" /\ BaseUrlFieldsTyped) =>
        IF baseUrlOverride.k = "string" /\ baseUrlOverride.s # <<>>
        THEN baseUrl = baseUrlOverride
        ELSE IF specVersion = "swagger_2"
        THEN baseUrl = JStr(IF Field(<<"h", "o", "s", "t">>) = <<>> THEN <<>>
                            ELSE FirstScheme \o <<":", "/", "/">> \o Field(<<"h", "o", "s", "t">>) \o Field(<<"b", "a", "s", "e", "P", "a", "t", "h">>))
        ELSE IF Get(specData, <<"s", "e", "r", "v", "e", "r", "s">>).k = "array" /\ Get(specData, <<"s", "e", "r", "v", "e", "r", "s">>).a # <<>>
        THEN baseUrl = JStr(IF Get(Get(specData, <<"s", "e", "r", "v", "e", "r", "s">>).a[1], <<"u", "r", "l">>).k = "string"
                            THEN Get(Get(specData, <<"s", "e", "r", "v", "e", "r", "s">>).a[1], <<"u", "r", "l">>).s ELSE <<>>)
        ELSE baseUrl = JStr(<<>>)

\* C21 witness: the Swagger 2 document with host api.example.com, basePath
\* /v1 and schemes [https] was parsed without override.
SwaggerBaseUrlBuilt ==
    /\ outcome = "ok"
    /\ baseUrlOverride = Undefined
    /\ Get(specData, <<"h", "o", "s", "t">>) = JStr(<<"a", "p", "i", ".", "e", "x", "a", "m", "p", "l", "e", ".", "c", "o", "m">>)
    /\ baseUrl = JStr(<<"h", "t", "t", "p", "s", ":", "/", "/", "a", "p", "i", ".", "e", "x", "a", "m", "p", "l", "e", ".", "c", "o", "m", "/", "v", "1">>)

\* C22: no state leaks between parse calls: a call made after other calls
\* on the same parser, successful or failed, of either layout, comes to
\* what the same call came to on the parser just constructed.
NoLeakBetweenCalls ==
    (pc = "done" /\ calls > 1 /\ CurrentCall = firstCall.call) => Result = firstCall.result

\* C22 witness: the third call on a parser has repeated the first, on the
\* OpenAPI 3.x document with a reference cycle, and has returned.
RepeatedAfterOtherLayout ==
    /\ pc = "done"
    /\ calls = 3
    /\ CurrentCall = firstCall.call
    /\ outcome = "ok"
    /\ specVersion = "openapi_3.0"
    /\ PtrA \in DOMAIN memo
    /\ Len(returned) = 2


(***************************************************************************)
(* C23: parse and resolveRefs never modify the input document: no step of  *)
(* a call, whether the call goes on to return or to fail, changes specData *)
(* or any schema in it that a $ref leads to.                               *)
(***************************************************************************)
DocumentNeverModified == [][specData' = specData]_vars

\* parse has returned after resolving a reference to something other than
\* the schema the pointer leads to, which the document still holds.
ResolvedBesideDocument ==
    /\ pc = "done"
    /\ outcome = "ok"
    /\ \E p \in DOMAIN memo :
        /\ lookupRef(specData, p) # JNull
        /\ memo[p] # lookupRef(specData, p)
        /\ memo[p] \notin {CircularPlaceholder, UnresolvedPlaceholder}

(***************************************************************************)
(* C24: whenever discoverApi is called with a baseUrl override, the        *)
(* specification it returns has that override as its base_url: on the      *)
(* first discovery of a spec path and on every later call served from the  *)
(* cache, with or without includeResources, whatever the earlier calls     *)
(* were given.                                                             *)
(***************************************************************************)
OverrideReturned ==
    (dpc = "idle" /\ discovered.outcome = "ok" /\ Truthy(request.baseUrl))
        => discovered.base_url = request.baseUrl

(***************************************************************************)
(* C25: memoization is transparent within one parse: the value resolveRefs *)
(* returns for a node when the memo has been filled by earlier resolutions *)
(* is the value it returns for the same node and the same                  *)
(* insidePolymorphic flag with an empty memo, also when an earlier         *)
(* resolution of the same pointer happened inside an anyOf/oneOf/allOf     *)
(* branch or while another pointer of a reference cycle was on the stack.  *)
(***************************************************************************)
\* resolveRefs(a.obj, specData, a.stack, m, a.poly) run to its end: what it
\* returns or that it raises, and the memo it leaves.
RECURSIVE RunFrom(_, _)
RECURSIVE RunCalls(_, _, _)
RunFrom(a, m) ==
    LET r == enterCall(a, m) IN
    IF r.push = <<>> THEN [ctl |-> r.ctl, val |-> r.val, memo |-> r.memo]
    ELSE RunCalls(r.push[1], <<>>, r.memo)

\* The calls the active call f makes after those that returned acc.
RunCalls(f, acc, m) ==
    LET ch == children(f) IN
    IF Len(acc) = Len(ch)
    THEN [ctl |-> "ret", val |-> result(f, acc),
          memo |-> IF f.kind = "ref" THEN MemoSet(m, f.key, result(f, acc)) ELSE m]
    ELSE LET c == RunFrom([obj |-> ch[Len(acc) + 1].obj, stack |-> f.cstack,
                           poly |-> ch[Len(acc) + 1].poly], m)
         IN  IF c.ctl = "throw"
             THEN IF f.kind = "ref"
                  THEN [ctl |-> "ret", val |-> UnresolvedPlaceholder,
                        memo |-> MemoSet(c.memo, f.key, UnresolvedPlaceholder)]
                  ELSE [ctl |-> "throw", val |-> Undefined, memo |-> c.memo]
             ELSE RunCalls(f, Append(acc, c.val), c.memo)

\* A call parse made of resolveRefs has returned.
Resolved == ctl = "ret" /\ frames = <<>>

MemoTransparent ==
    Resolved => val = RunFrom(arg, EmptyMemo).val

(***************************************************************************)
(* C26: the outcome "operation skipped because no valid tool name can be   *)
(* generated" is unreachable for a supported method: for every path and    *)
(* every method key among get, post, put, patch, delete in any letter      *)
(* case the normalized fallback name starts with an ASCII letter and is    *)
(* valid, so every operation whose value is an object yields a tool        *)
(* whatever its operationId.                                               *)
(***************************************************************************)
\* The loop is at a supported method key whose value is an object.
AtSupportedOperation ==
    /\ pc = "paths"
    /\ opIdx <= Len(pathEntries(specData))
    /\ toLowerCase(entry.method) \in
           {<<"g", "e", "t">>, <<"p", "o", "s", "t">>, <<"p", "u", "t">>, <<"p", "a", "t", "c", "h">>, <<"d", "e", "l", "e", "t", "e">>}
    /\ IsObjectType(entry.operation)

\* The turn of the loop goes on to build the tool, under a name that starts
\* with an ASCII letter (stated for operations whose parameters the loop of
\* parseParameters can walk, so that only the naming decides).
SupportedOperationYieldsTool ==
    [][(/\ AtSupportedOperation
        /\ Iterable(OrElse(Get(entry.operation, STR_parameters), JArr(<<>>))))
          => (pc' = "parameters" /\ StartsWithLetter(toolName'))]_vars

\* The first half on its own: no turn of the loop at a supported operation
\* is the skip (the loop moves on and nothing is raised).
SupportedOperationNeverSkipped ==
    [][AtSupportedOperation => ~(pc' = "paths" /\ opIdx' = opIdx + 1)]_vars

\* The method keys in some letter cases, and the fallback name of every
\* path handed to normalizeToolName under each of them.
MethodKeys ==
    {<<"g", "e", "t">>, <<"p", "o", "s", "t">>, <<"p", "u", "t">>, <<"p", "a", "t", "c", "h">>, <<"d", "e", "l", "e", "t", "e">>, <<"G", "E", "T">>, <<"P", "o", "s", "t">>, <<"p", "U", "T">>, <<"P", "A", "T", "C", "H">>, <<"d", "E", "L", "E", "T", "E">>}

FallbackNameValid ==
    \A method \in MethodKeys :
        LET name == normalizeToolName(toLowerCase(method) \o cleanPath(rawName)) IN
        StartsWithLetter(name) /\ isValidToolName(name)

(***************************************************************************)
(* C27: every parameter with location "body" in the parameters of a tool   *)
(* is a decomposed property of the resolved request-body schema of the     *)
(* operation: for a Swagger 2 operation the in: "body" parameter itself    *)
(* does not appear under its own name next to the properties of its        *)
(* schema.                                                                 *)
(***************************************************************************)
\* The names of all the properties of the body schemas of an operation.
AllBodyPropertyNames(operation) ==
    UNION { LET es == Entries(OrElse(Get(s, STR_properties), JObj(<<>>)))
            IN  {es[i][1] : i \in 1..Len(es)}
            : s \in {b \in BodySchemas(operation) : b.k = "object"} }

BodyLocatedAreBodyProperties ==
    outcome = "ok" =>
        \A i \in 1..Len(tools) :
            LET ps == tools[i].parameters.e IN
            \A j \in 1..Len(ps) :
                Get(ps[j][2], STR_location) = JStr(STR_body) =>
                    \E operation \in OperationsAt(tools[i]) :
                        ps[j][1] \in AllBodyPropertyNames(operation)

(***************************************************************************)
(* C28: after any sequence of successful discoverApi calls the cache entry *)
(* of a spec path holds the parse of the document without resource filter, *)
(* whatever includeResources the first call used; so, for the same spec    *)
(* path, includeResources and pathPrefix, discoverApi returns the same     *)
(* tool list from the cache as when it fetched the document, and a call    *)
(* without includeResources always returns the full tool list.             *)
(***************************************************************************)
\* The last discoverApi call has returned a specification.
Discovered == dpc = "idle" /\ discovered.outcome = "ok"

CacheHoldsUnfilteredParse ==
    /\ \A k \in DOMAIN cache :
        /\ k \in DOMAIN fetched
        /\ cache[k].tools = fetched[k].unfiltered
    /\ Discovered =>
        LET k == normalizeCacheKey(request.specPath) IN
        /\ k \in DOMAIN fetched
        /\ (/\ discovered.served = "cache"
            /\ request.includeResources = fetched[k].includeResources
            /\ request.pathPrefix = fetched[k].pathPrefix)
              => discovered.tools = fetched[k].tools
        /\ request.includeResources = Undefined
              => discovered.tools = fetched[k].unfiltered

\* The document was fetched by a call with includeResources, which got one
\* tool of three; the same call, repeated, is served from the cache and gets
\* the same tool, and the cache entry holds the three.
FilteredServedFromCache ==
    /\ Discovered
    /\ discovered.served = "cache"
    /\ discoveries > 1
    /\ Truthy(request.includeResources)
    /\ LET k == normalizeCacheKey(request.specPath) IN
        /\ k \in DOMAIN cache
        /\ request.includeResources = fetched[k].includeResources
        /\ request.pathPrefix = fetched[k].pathPrefix
        /\ Len(discovered.tools) = 1
        /\ Len(cache[k].tools) = 3

(***************************************************************************)
(* C29: normalize is idempotent: for every string s over letters, digits   *)
(* and the separators '/', '_', '-', '.',                                  *)
(* normalize(normalize(s)) = normalize(s).                                 *)
(***************************************************************************)
\* s is made of letters, digits and separators only.
OverNameAlphabet(s) ==
    \A i \in 1..Len(s) : IsLower(s[i]) \/ IsUpper(s[i]) \/ IsDigit(s[i]) \/ s[i] \in {"/", "_", "-", "."}

NormalizeIdempotent ==
    (normalized # Undefined /\ OverNameAlphabet(rawName))
        => normalizeToolName(normalized.s) = normalized.s


\* A step in which call id of request settles: it returns or throws after
\* fetch was called.
Settles(id) ==
    /\ id \in DOMAIN requests
    /\ requests[id].pc \in {"fetch", "text"}
    /\ requests'[id].pc \in {"returned", "thrown"}

\* The calls of request in rs that reached fetch and have settled.
SettledAfterFetch(rs) ==
    {id \in DOMAIN rs : rs[id].reached /\ rs[id].pc \in {"returned", "thrown"}}

====
